---- MODULE Spec2Model ----
(***************************************************************************)
(* A model of vault_lib: the incremental indexer (index.py), the source    *)
(* registry (sources.py) and the section extractor (sections.py).          *)
(*                                                                         *)
(* Strings the code matches with fnmatch (paths, glob patterns) are tuples *)
(* of one-character strings, so that lstrip, rstrip, join and fnmatch are  *)
(* computed as the code computes them.  A file's text is a tuple of line   *)
(* tokens, one per line that split('\n') yields; each token stands for one *)
(* concrete line (see LineKinds).                                          *)
(***************************************************************************)
EXTENDS Integers, Sequences, FiniteSets, TLC

VARIABLES
    fs,            \* the root directory: path -> [exists, bytes, readable]
    searchignore,  \* the patterns of <root>/.searchignore (<<>>: no such file)
    db,            \* the committed SQLite store, what any reader sees
    tx,            \* the writer's uncommitted view inside BEGIN IMMEDIATE..COMMIT
    pc,            \* position of the index_files / cmd_* call in progress
    scan,          \* index_files' locals after the scan and the diff
    pending,       \* files_to_insert not yet visited by the insert loop
    result,        \* what the last index_files call returned (or that it raised)
    passes,        \* number of index_files calls started
    edits,         \* number of changes made to the directory and of cmd_* calls
    touched,       \* (ghost) the directory changed since the running pass scanned it
    steady,        \* (ghost) no committed pass so far ran on a changing directory
    mount_out,     \* what the last cmd_mount / cmd_unmount call returned
    sx_content,    \* extract_sections: the content argument
    sx_type,       \* extract_sections: the file_type argument
    sx_sections,   \* extract_sections: the returned list
    sx_pc,         \* "ready" before the call, "done" after it
    se_in,         \* search_combined: root_path, limit and what each channel does
    se_out,        \* search_combined: the returned dictionary
    se_pc,         \* "ready" before the call, "done" after it
    en_in,         \* a search result: its file's lines, type, match line
    en_out,        \* the section and the context attached to the result
    en_pc,         \* "ready" before the call, then what was computed
    sm_store,      \* cmd_related / cmd_duplicates: the rows of the files table
    sm_arg,        \* cmd_related: the filepath and top arguments
    sm_out,        \* what the cmd_* call returned (or that it raised)
    sm_pc,         \* "ready" before the call, then the name of the command
    fn_in,         \* the arguments of a function that is checked on its own
    fn_out,        \* what the function returned
    fn_pc          \* "ready" before the call, then the name of the function

indexVars == <<fs, searchignore, db, tx, pc, scan, pending, result, passes,
               edits, touched, steady, mount_out>>
sxVars == <<sx_content, sx_type, sx_sections, sx_pc>>
seVars == <<se_in, se_out, se_pc, en_in, en_out, en_pc>>
smVars == <<sm_store, sm_arg, sm_out, sm_pc>>
argVars == <<fn_in, fn_out, fn_pc>>
\* the functions that are checked on their own
fnVars == <<sx_content, sx_type, sx_sections, sx_pc, se_in, se_out, se_pc,
            en_in, en_out, en_pc, sm_store, sm_arg, sm_out, sm_pc,
            fn_in, fn_out, fn_pc>>
vars == <<fs, searchignore, db, tx, pc, scan, pending, result, passes,
          edits, touched, steady, mount_out, sx_content, sx_type, sx_sections, sx_pc,
          se_in, se_out, se_pc, en_in, en_out, en_pc,
          sm_store, sm_arg, sm_out, sm_pc, fn_in, fn_out, fn_pc>>

(***************************************************************************)
(* Bounds of the model.                                                    *)
(***************************************************************************)
MaxPasses == 2
MaxEdits == 3
MaxLines == 4
MaxLimit == 2

None == "None"

(***************************************************************************)
(* Character-tuple strings.                                                *)
(***************************************************************************)
RECURSIVE LStrip(_, _)
\* str.lstrip(chars)
LStrip(s, chars) ==
    IF s # <<>> /\ Head(s) \in chars THEN LStrip(Tail(s), chars) ELSE s

RECURSIVE RStrip(_, _)
\* str.rstrip(chars)
RStrip(s, chars) ==
    IF s # <<>> /\ s[Len(s)] \in chars
    THEN RStrip(SubSeq(s, 1, Len(s) - 1), chars)
    ELSE s

\* str.endswith(c) for a single character c
EndsWith(s, c) == s # <<>> /\ s[Len(s)] = c

RECURSIVE Join(_)
\* "/".join(parts)
Join(parts) ==
    IF parts = <<>> THEN <<>>
    ELSE IF Len(parts) = 1 THEN parts[1]
    ELSE parts[1] \o <<"/">> \o Join(Tail(parts))

RECURSIVE fnmatch(_, _)
\* fnmatch.fnmatch(name, pat) on POSIX (case-sensitive), for patterns of
\* literals, "*" and "?": "*" matches any run of characters, "/" included.
fnmatch(name, pat) ==
    IF pat = <<>> THEN name = <<>>
    ELSE IF Head(pat) = "*"
         THEN fnmatch(name, Tail(pat))
              \/ (name # <<>> /\ fnmatch(Tail(name), pat))
    ELSE /\ name # <<>>
         /\ (Head(pat) = "?" \/ Head(pat) = Head(name))
         /\ fnmatch(Tail(name), Tail(pat))

RECURSIVE Suffix(_)
\* PurePath.suffix of a file name: from its last ".", "" when there is none
\* or when the only "." is the leading one
Suffix(name) ==
    IF Len(name) <= 1 THEN <<>>
    ELSE IF "." \in {name[i] : i \in 2..Len(name)}
         THEN LET k == CHOOSE i \in 2..Len(name) :
                          /\ name[i] = "."
                          /\ \A j \in (i+1)..Len(name) : name[j] # "."
              IN IF k = Len(name) THEN <<>> ELSE SubSeq(name, k, Len(name))
    ELSE <<>>

(***************************************************************************)
(* The files of the modelled root directory, and the patterns in play.     *)
(***************************************************************************)
Paths == {"a.md", "s/b.txt"}

\* Path(rel).parts of each path
Parts(p) ==
    IF p = "a.md" THEN << <<"a", ".", "m", "d">> >>
    ELSE << <<"s">>, <<"b", ".", "t", "x", "t">> >>

DEFAULT_EXCLUDES == <<
    <<".", "/", "S", "E", "A", "R", "C", "H">>,
    <<".", "/", "S", "E", "A", "R", "C", "H", "/", "*">>,
    <<".", "/", ".", "v", "a", "u", "l", "t", "_", "s", "t", "a", "t", "e">>,
    <<".", "/", ".", "v", "a", "u", "l", "t", "_", "s", "t", "a", "t", "e", "/", "*">>,
    <<".", "/", ".", "g", "i", "t">>,
    <<".", "/", ".", "g", "i", "t", "/", "*">>,
    <<"_", "_", "p", "y", "c", "a", "c", "h", "e", "_", "_">>,
    <<"_", "_", "p", "y", "c", "a", "c", "h", "e", "_", "_", "/", "*">>,
    <<"*", ".", "p", "y", "c">>,
    <<".", "D", "S", "_", "S", "t", "o", "r", "e">>,
    <<"*", ".", "d", "b">>,
    <<"*", ".", "d", "b", "-", "j", "o", "u", "r", "n", "a", "l">> >>

\* what a .searchignore of the root may hold: nothing, or the line "s/"
IgnoreFiles == { <<>>, << <<"s", "/">> >> }

\* the exclude_patterns a caller may pass: none, ["*.txt"] or ["a.md"]
CallerPatterns == { <<>>, << <<"*", ".", "t", "x", "t">> >>,
                    << <<"a", ".", "m", "d">> >> }

\* _should_exclude for one pattern; parts is rel_path.parts
ExcludedBy(parts, pattern) ==
    LET rel_str == Join(parts)
        name == parts[Len(parts)]
        pattern_clean == RStrip(LStrip(pattern, {".", "/"}), {"/"})
        is_dir_pattern == EndsWith(pattern, "/")
        prefixes == {Join(SubSeq(parts, 1, i)) : i \in 1..(Len(parts) - 1)}
    IN IF is_dir_pattern
       THEN \/ \E i \in 1..(Len(parts) - 1) : fnmatch(parts[i], pattern_clean)
            \/ \E prefix \in prefixes :
                   \/ fnmatch(prefix, pattern_clean)
                   \/ fnmatch(prefix, pattern_clean \o <<"/", "*">>)
       ELSE \/ fnmatch(rel_str, pattern)
            \/ fnmatch(rel_str, pattern_clean)
            \/ fnmatch(name, pattern)
            \/ fnmatch(name, pattern_clean)
            \/ \E parent_str \in prefixes :
                   \/ fnmatch(parent_str, pattern)
                   \/ fnmatch(parent_str, pattern_clean)

\* _should_exclude(file_path, root_path, exclude_patterns), for a file under
\* the root
ShouldExclude(p, patterns) ==
    \E i \in 1..Len(patterns) : ExcludedBy(Parts(p), patterns[i])

\* type_map.get(ext, "unknown") for the suffix of a file name
FileTypeOf(name) ==
    LET ext == Suffix(name)
    IN IF ext = <<".", "m", "d">> THEN "markdown"
       ELSE IF ext = <<".", "t", "x", "t">> THEN "text"
       ELSE IF ext = <<".", "p", "y">> THEN "python"
       ELSE IF ext = <<".", "s", "h">> THEN "shell"
       ELSE IF ext = <<".", "j", "s", "o", "n">> THEN "json"
       ELSE IF ext = <<".", "y", "a", "m", "l">> THEN "yaml"
       ELSE IF ext = <<".", "y", "m", "l">> THEN "yaml"
       ELSE IF ext = <<".", "h", "t", "m", "l">> THEN "html"
       ELSE IF ext = <<".", "c", "s", "s">> THEN "css"
       ELSE IF ext = <<".", "j", "s">> THEN "javascript"
       ELSE IF ext = <<".", "t", "s">> THEN "typescript"
       ELSE "unknown"

\* _get_file_type
GetFileType(p) == FileTypeOf(Parts(p)[Len(Parts(p))])

(***************************************************************************)
(* Lines.  Each token is one concrete line:                                *)
(*   blank   ""                        sep   "---"                         *)
(*   text    "hello world"             hdr   "# Intro"                     *)
(*   ts      "2024-01-15 10:30:45 up"  def   "def f():"                    *)
(*   cmt     "# ==="                   dhdr  "#### 2024-01-15:"            *)
(*   us      "01/15/2024 notes"                                            *)
(***************************************************************************)
LineKinds == {"blank", "sep", "text", "hdr", "ts", "def", "cmt", "dhdr", "us"}

\* line.strip() == ""
StripsEmpty(line) == line = "blank"

\* _extract_date_from_line: the date a line holds (written year first, or
\* month first), normalized to ISO, or None
ExtractDateFromLine(line) ==
    IF line \in {"ts", "dhdr", "us"} THEN "2024-01-15" ELSE None

\* section_date in section_header.replace('/', '-')
HeaderHoldsDate(header, date) ==
    header \in {"ts", "dhdr"} /\ date = "2024-01-15"

\* _is_markdown_header: ^#{1,6}\s+
IsMarkdownHeader(line) == line \in {"hdr", "cmt", "dhdr"}

\* _is_blank_or_separator
IsBlankOrSeparator(line) == StripsEmpty(line) \/ line = "sep"

\* _is_log_timestamp
IsLogTimestamp(line) == line = "ts"

\* _is_code_block_start
IsCodeBlockStart(line, file_ext) ==
    file_ext \in {"py", "rb"} /\ line = "def"

\* _is_comment_block_start
IsCommentBlockStart(line, file_ext) ==
    file_ext \in {"py", "sh", "bash", "zsh", "rb", "r"} /\ line = "cmt"

MARKDOWN_EXTENSIONS == {"md", "markdown", "mdx"}
LOG_EXTENSIONS == {"log"}
CODE_EXTENSIONS == {"py", "js", "ts", "jsx", "tsx", "java", "c", "cpp", "h",
                    "hpp", "cs", "go", "rs", "rb", "php", "swift", "kt",
                    "scala", "r", "sh", "bash", "zsh", "fish", "ps1", "bat",
                    "cmd"}
TEXT_EXTENSIONS == {"txt", "text"}

RECURSIVE TrimTrailing(_)
\* while lines and not lines[-1].strip(): lines.pop()
TrimTrailing(lines) ==
    IF lines # <<>> /\ StripsEmpty(lines[Len(lines)])
    THEN TrimTrailing(SubSeq(lines, 1, Len(lines) - 1))
    ELSE lines

\* detect_section_date(lines, start_line, max_scan)
DetectSectionDate(lines, start_line, max_scan) ==
    IF lines = <<>> \/ start_line < 1 \/ start_line - 1 >= Len(lines) THEN None
    ELSE LET last == IF Len(lines) < start_line - 1 + max_scan
                     THEN Len(lines) ELSE start_line - 1 + max_scan
             dated == {i \in start_line..last :
                           ExtractDateFromLine(lines[i]) # None}
         IN IF dated = {} THEN None
            ELSE ExtractDateFromLine(
                     lines[CHOOSE i \in dated : \A j \in dated : i <= j])

RECURSIVE Ascending(_)
\* the members of a set of line numbers, in file order
Ascending(S) ==
    IF S = {} THEN <<>>
    ELSE LET m == CHOOSE x \in S : \A y \in S : x <= y
         IN <<m>> \o Ascending(S \ {m})

\* line_end values that run into the next section's first line
FillLineEndsOverlapping(sections, n) ==
    [i \in 1..Len(sections) |->
        [sections[i] EXCEPT !.line_end =
            IF i + 1 <= Len(sections) THEN sections[i + 1].line_start
            ELSE n]]

\* "Fill in line_end values": each section ends one line before the next one
\* starts, the last one at len(lines)
FillLineEnds(sections, n) ==
    [i \in 1..Len(sections) |->
        [sections[i] EXCEPT !.line_end =
            IF i + 1 <= Len(sections) THEN sections[i + 1].line_start - 1
            ELSE n]]

\* _extract_markdown_sections
ExtractMarkdownSections(lines) ==
    LET starts == Ascending({i \in 1..Len(lines) : IsMarkdownHeader(lines[i])})
        found == [k \in 1..Len(starts) |->
                    [line_start |-> starts[k],
                     line_end |-> 0,
                     section_date |-> ExtractDateFromLine(lines[starts[k]]),
                     section_header |-> lines[starts[k]],
                     section_type |-> "md_header"]]
    IN IF found = <<>> /\ lines # <<>>
       THEN << [line_start |-> 1,
                line_end |-> Len(lines),
                section_date |-> DetectSectionDate(lines, 1, 10),
                section_header |-> lines[1],
                section_type |-> "md_header"] >>
       ELSE FillLineEnds(found, Len(lines))

\* the section _extract_text_sections appends for the run that starts at
\* 0-based index current_start and is closed with line_end
TextSection(lines, current_start, line_end) ==
    [line_start |-> current_start + 1,
     line_end |-> line_end,
     section_date |-> DetectSectionDate(lines, current_start + 1, 5),
     section_header |-> lines[current_start + 1],
     section_type |-> "blank_sep"]

RECURSIVE TextLoop(_, _, _, _)
\* the loop of _extract_text_sections from 0-based index i on, and its
\* "last section" tail; current_start is a 0-based index, or -1 for None
TextLoop(lines, i, current_start, sections) ==
    IF i >= Len(lines)
    THEN IF current_start >= 0
         THEN Append(sections, TextSection(lines, current_start, Len(lines)))
         ELSE sections
    ELSE LET is_blank == IsBlankOrSeparator(lines[i + 1])
         IN IF current_start < 0 /\ ~is_blank
            THEN TextLoop(lines, i + 1, i, sections)
            ELSE IF current_start >= 0 /\ is_blank
            THEN TextLoop(lines, i + 1, -1,
                          Append(sections, TextSection(lines, current_start, i)))
            ELSE TextLoop(lines, i + 1, current_start, sections)

\* _extract_text_sections
ExtractTextSections(lines) == TextLoop(lines, 0, -1, <<>>)

\* _extract_log_sections
ExtractLogSections(lines) ==
    LET starts == Ascending({i \in 1..Len(lines) : IsLogTimestamp(lines[i])})
        found == [k \in 1..Len(starts) |->
                    [line_start |-> starts[k],
                     line_end |-> 0,
                     section_date |-> ExtractDateFromLine(lines[starts[k]]),
                     section_header |-> lines[starts[k]],
                     section_type |-> "log_timestamp"]]
    IN IF found = <<>> THEN ExtractTextSections(lines)
       ELSE FillLineEnds(found, Len(lines))

\* _extract_code_sections
ExtractCodeSections(lines, file_ext) ==
    LET starts == Ascending({i \in 1..Len(lines) :
                                \/ IsCodeBlockStart(lines[i], file_ext)
                                \/ IsCommentBlockStart(lines[i], file_ext)})
        found == [k \in 1..Len(starts) |->
                    [line_start |-> starts[k],
                     line_end |-> 0,
                     section_date |-> DetectSectionDate(lines, starts[k], 3),
                     section_header |-> lines[starts[k]],
                     section_type |->
                         IF IsCommentBlockStart(lines[starts[k]], file_ext)
                         THEN "comment_block" ELSE "code_def"]]
    IN IF found = <<>> THEN ExtractTextSections(lines)
       ELSE FillLineEnds(found, Len(lines))

\* the "Post-process" loop of extract_sections
MarkDateHeaders(sections) ==
    [i \in 1..Len(sections) |->
        IF /\ sections[i].section_date # None
           /\ sections[i].section_type \in {"md_header", "blank_sep"}
           /\ HeaderHoldsDate(sections[i].section_header,
                              sections[i].section_date)
        THEN [sections[i] EXCEPT !.section_type = "date_header"]
        ELSE sections[i]]

\* extract_sections(content, file_type); content is the tuple of the lines
\* that content.split('\n') yields, so the empty string is <<"blank">>
ExtractSections(content, file_ext) ==
    LET lines == TrimTrailing(content)
    IN IF lines = <<>> THEN <<>>
       ELSE MarkDateHeaders(
                IF file_ext \in MARKDOWN_EXTENSIONS
                THEN ExtractMarkdownSections(lines)
                ELSE IF file_ext \in LOG_EXTENSIONS
                THEN ExtractLogSections(lines)
                ELSE IF file_ext \in CODE_EXTENSIONS
                THEN ExtractCodeSections(lines, file_ext)
                ELSE ExtractTextSections(lines))

(***************************************************************************)
(* File contents.  A file's bytes are its lines and its line terminator;   *)
(* read_text decodes with universal newlines, so the terminator is lost.   *)
(*   B1  "# Intro\nhello world\n"       B2  "# Intro\r\nhello world\r\n"   *)
(*   B3  "hello world\n\nhello world"                                      *)
(***************************************************************************)
B1 == [lines |-> <<"hdr", "text", "blank">>, eol |-> "lf"]
B2 == [lines |-> <<"hdr", "text", "blank">>, eol |-> "crlf"]
B3 == [lines |-> <<"text", "blank", "text">>, eol |-> "lf"]
Bytes == {B1, B2, B3}

\* two more files, met only by the similarity commands: one without a
\* single token, one that continues B3
B4 == [lines |-> <<"sep">>, eol |-> "lf"]
B5 == [lines |-> <<"text", "blank", "text", "sep">>, eol |-> "lf"]

\* calculate_file_hash: sha256(content).hexdigest()[:16].  The digest of each
\* modelled content is a distinct number (no two of them collide).
CalculateFileHash(b) ==
    IF b = B1 THEN 7 ELSE IF b = B2 THEN 2 ELSE IF b = B3 THEN 5
    ELSE IF b = B4 THEN 11 ELSE 13

\* Path.read_text: the decoded text, as its lines
Decode(b) == b.lines

NoFile == [exists |-> FALSE, bytes |-> B1, readable |-> TRUE]
File(b) == [exists |-> TRUE, bytes |-> b, readable |-> TRUE]

\* read_bytes in calculate_file_hash raises
HashRaises(f) == ~f.exists \/ ~f.readable

\* _read_file_content returns None
ContentIsNone(f) == ~f.exists \/ ~f.readable

\* _read_file_content, when it returns text
ReadFileContent(f) == Decode(f.bytes)

(***************************************************************************)
(* The store.  files rows carry the columns index_files writes (file_size  *)
(* and indexed_at left out) and source_id (0 for NULL); raw is a ghost     *)
(* column: the bytes the stored content was decoded from.  The connections *)
(* never issue PRAGMA foreign_keys = ON, so SQLite does not enforce        *)
(* file_sections' ON DELETE CASCADE.                                       *)
(***************************************************************************)
NoManifest == [present |-> FALSE, total_files |-> 0, content_hash |-> <<>>]

EmptyDb == [files |-> {}, file_sections |-> {}, manifest |-> NoManifest,
            sources |-> {}, seq_files |-> 0, seq_sources |-> 0]

Aliases == {"docs"}
MountDirs == {"/mnt/docs"}

\* Path(path).resolve(): one directory under two spellings
Resolve(path) == IF path = "/mnt/docs/" THEN "/mnt/docs" ELSE path

\* the directories that exist outside the root
ExistingDirs == {"/mnt/docs", "/mnt/notes"}

\* alias.strip()
Strip(alias) ==
    IF alias = " docs" THEN "docs" ELSE IF alias = " " THEN "" ELSE alias

\* a result, with the call it answers
NoMountOut == [call |-> "none", path |-> "", alias |-> "", success |-> FALSE,
               source_id |-> 0, error |-> None]

FilePaths(d) == {r.file_path : r \in d.files}
RowOf(d, p) == CHOOSE r \in d.files : r.file_path = p

\* get_indexed_files
GetIndexedFiles(d) == [p \in FilePaths(d) |-> RowOf(d, p).content_hash]

RECURSIVE SortedValues(_, _)
\* sorted(f.values()) for the keys in S
SortedValues(f, S) ==
    IF S = {} THEN <<>>
    ELSE LET p == CHOOSE x \in S : \A y \in S : f[x] <= f[y]
         IN <<f[p]>> \o SortedValues(f, S \ {p})

\* sha256("".join(all_hashes)).hexdigest()[:16]: the digest of a list of
\* fixed-width fingerprints, distinct for distinct lists
CombinedHash(all_hashes) == all_hashes

\* the files that pass the walk's is_file and _should_exclude tests
ScanCandidatesNoExclude(fsx, patterns) == {p \in Paths : fsx[p].exists}

ScanCandidates(fsx, patterns) ==
    {p \in Paths : fsx[p].exists /\ ~ShouldExclude(p, patterns)}

\* to_update when a changed fingerprint goes unnoticed
ToUpdateNever(indexed_files, current_files) == {}

\* "Check for content changes in existing files"
ToUpdate(indexed_files, current_files) ==
    {p \in DOMAIN indexed_files \cap DOMAIN current_files :
        current_files[p] # indexed_files[p]}

\* "Build exclusion patterns"
BuildPatterns(ignore, caller) == DEFAULT_EXCLUDES \o ignore \o caller

\* index_files from "Get current index state" to "Apply changes to database":
\* the scan and the diff.  seen is a ghost: the bytes that were hashed.
ScanAndDiff(fsx, patterns, d) ==
    LET indexed_files == GetIndexedFiles(d)
        candidates == ScanCandidates(fsx, patterns)
        hashed == {p \in candidates : ~HashRaises(fsx[p])}
        current_files == [p \in hashed |-> CalculateFileHash(fsx[p].bytes)]
        indexed_set == DOMAIN indexed_files
        current_set == DOMAIN current_files
        to_check == indexed_set \cap current_set
        to_update == ToUpdate(indexed_files, current_files)
    IN [patterns |-> patterns,
        indexed_files |-> indexed_files,
        current_files |-> current_files,
        seen |-> [p \in hashed |-> fsx[p].bytes],
        errors |-> {[file |-> p, error |-> "hash"] : p \in candidates \ hashed},
        to_add |-> current_set \ indexed_set,
        to_delete |-> indexed_set \ current_set,
        to_update |-> to_update,
        unchanged |-> Cardinality(to_check) - Cardinality(to_update)]

NoScan == [patterns |-> <<>>, indexed_files |-> <<>>, current_files |-> <<>>,
           seen |-> <<>>,
           errors |-> {}, to_add |-> {}, to_delete |-> {}, to_update |-> {},
           unchanged |-> 0]

\* a delete loop that leaves the rows in place
DeleteRemovedNothing(d, to_delete) == d

\* "Delete removed files": the files row goes, its file_sections rows stay
DeleteRemoved(d, to_delete) ==
    [d EXCEPT !.files = {r \in d.files : r.file_path \notin to_delete}]

\* "Delete changed files ... before re-inserting": sections first, then the row
DeleteChanged(d, to_update) ==
    LET ids == {r.file_id : r \in {x \in d.files : x.file_path \in to_update}}
    IN [d EXCEPT !.files = {r \in d.files : r.file_path \notin to_update},
                 !.file_sections = {s \in d.file_sections : s.file_id \notin ids}]

\* the file_sections rows of one inserted file
SectionRows(rowid, sections) ==
    {[file_id |-> rowid,
      line_start |-> sections[i].line_start,
      line_end |-> sections[i].line_end,
      section_date |-> sections[i].section_date,
      section_header |-> sections[i].section_header,
      section_type |-> sections[i].section_type] : i \in 1..Len(sections)}

\* one iteration of "Insert new and updated files" for a readable file
InsertFile(d, p, f, content_hash) ==
    LET content == ReadFileContent(f)
        file_type == GetFileType(p)
        rowid == d.seq_files + 1
    IN [d EXCEPT
          !.files = @ \cup {[file_id |-> rowid, file_path |-> p,
                             file_type |-> file_type, content |-> content,
                             content_hash |-> content_hash, source_id |-> 0,
                             raw |-> f.bytes]},
          !.seq_files = rowid,
          !.file_sections = @ \cup
              SectionRows(rowid, ExtractSections(content, file_type))]

\* "Update manifest"
ManifestOf(d, current_files) ==
    [present |-> TRUE,
     total_files |-> Cardinality(DOMAIN current_files),
     content_hash |->
         CombinedHash(SortedValues(current_files, DOMAIN current_files))]

\* a handler that commits what the failed transaction had written
RolledBackPartly(committed, working) == working

\* except Exception: ROLLBACK
RolledBack(committed, working) == committed

NoResult == [status |-> "none", added |-> 0, updated |-> 0, deleted |-> 0,
             unchanged |-> 0, total |-> 0, errors |-> {}]

(***************************************************************************)
(* search_combined (search.py).  A path is the tuple of its components     *)
(* (Path.parts).  Channel scores are in units of 0.00001, fused scores in  *)
(* units of 0.000001 and the scores of the returned dictionaries, which    *)
(* to_dict rounds to four decimals, in units of 0.0001.                    *)
(***************************************************************************)
FTS_WEIGHT == 6
RIPGREP_WEIGHT == 4
BOTH_SOURCES_BONUS == 200000
ScoreOne == 1000000

\* documents of the index, by their path relative to the root
SearchDocs == {<<"a.md">>, <<"s", "b.txt">>, <<"x", "s", "b.txt">>}

\* root_path as the caller gives it: "." and "/tmp/root"
SearchRoots == {<<>>, <<"/", "tmp", "root">>}

\* normalized channel scores: 0.33333 and 1.0
ChannelScores == {33333, 100000}

\* the line the ranked channel reports, and the lines the lexical channel
\* reports, for a document they hit
FtsLine == 2
RgLines == <<1, 2>>

\* how a channel can end
FtsOutcomes == {"ok", "DatabaseNotInitializedError", "Exception"}
RgOutcomes == {"ok", "RipgrepNotFoundError", "Exception"}

\* the FileSearchResult search_fts builds for a row: file_path as stored
FtsResult(hit) ==
    [filepath |-> hit.doc, score |-> hit.score, line_number |-> FtsLine,
     line_numbers |-> <<FtsLine>>, source |-> "fts"]

\* the FileSearchResult search_ripgrep builds: the path as rg prints it,
\* the root it was given followed by the relative path
RipgrepResult(root, hit) ==
    [filepath |-> root \o hit.doc, score |-> hit.score,
     line_number |-> RgLines[1], line_numbers |-> RgLines,
     source |-> "ripgrep"]

\* get_dedup_key: the last two path components, or the name
get_dedup_key(filepath) ==
    IF Len(filepath) >= 2
    THEN SubSeq(filepath, Len(filepath) - 1, Len(filepath))
    ELSE filepath

\* position of key in the combined dictionary (0: not a key of it)
KeyIndex(combined, key) ==
    IF \E i \in 1..Len(combined) : combined[i].key = key
    THEN CHOOSE i \in 1..Len(combined) : combined[i].key = key
    ELSE 0

RECURSIVE AddFts(_, _)
\* "Add FTS results first"
AddFts(combined, results) ==
    IF results = <<>> THEN combined
    ELSE LET r == Head(results)
             key == get_dedup_key(r.filepath)
             entry == [key |-> key, result |-> r, sources |-> <<"fts">>,
                       fts_score |-> r.score, ripgrep_score |-> 0]
             i == KeyIndex(combined, key)
         IN AddFts(IF i = 0 THEN Append(combined, entry)
                   ELSE [combined EXCEPT ![i] = entry],
                   Tail(results))

RECURSIVE AddRipgrep(_, _)
\* "Add/merge ripgrep results"
AddRipgrep(combined, results) ==
    IF results = <<>> THEN combined
    ELSE LET r == Head(results)
             key == get_dedup_key(r.filepath)
             i == KeyIndex(combined, key)
             merged ==
                 [combined[i] EXCEPT
                     !.sources = Append(@, "ripgrep"),
                     !.ripgrep_score = r.score,
                     !.result.line_numbers =
                         Ascending({@[n] : n \in 1..Len(@)}
                                   \cup {r.line_numbers[n] :
                                            n \in 1..Len(r.line_numbers)})]
             fresh == [key |-> key, result |-> r, sources |-> <<"ripgrep">>,
                       fts_score |-> 0, ripgrep_score |-> r.score]
         IN AddRipgrep(IF i = 0 THEN Append(combined, fresh)
                       ELSE [combined EXCEPT ![i] = merged],
                       Tail(results))

\* both_bonus
BothBonus(sources) == IF Len(sources) > 1 THEN BOTH_SOURCES_BONUS ELSE 0

\* min(1.0, weighted_score)
FusedScore(fts_score, ripgrep_score, both_bonus) ==
    LET weighted_score == FTS_WEIGHT * fts_score
                          + RIPGREP_WEIGHT * ripgrep_score + both_bonus
    IN IF weighted_score > ScoreOne THEN ScoreOne ELSE weighted_score

\* "Calculate final scores": score and source of an entry's result
Scored(data) ==
    [data EXCEPT
        !.result.score = FusedScore(data.fts_score, data.ripgrep_score,
                                    BothBonus(data.sources)),
        !.result.source = IF Len(data.sources) > 1 THEN "combined"
                          ELSE data.sources[1]]

\* sorted(combined.items(), key=lambda item: -item[1]["result"].score): the
\* highest score first, equal scores in the order they had (the sort is
\* stable)
SortedItems(items) ==
    LET n == Len(items)
        rank(i) == Cardinality({j \in 1..n :
                        \/ items[j].result.score > items[i].result.score
                        \/ /\ items[j].result.score = items[i].result.score
                           /\ j < i}) + 1
    IN [k \in 1..n |-> items[CHOOSE i \in 1..n : rank(i) = k]]

\* round(self.score, 4): from units of 0.000001 to units of 0.0001
Round4(score) == (score + 50) \div 100

\* FileSearchResult.to_dict, with the sources list search_combined adds
ToDict(data) ==
    [filepath |-> data.result.filepath,
     score |-> Round4(data.result.score),
     source |-> data.result.source,
     line_number |-> data.result.line_number,
     line_numbers |-> IF Len(data.result.line_numbers) > 1
                      THEN data.result.line_numbers ELSE <<>>,
     sources |-> data.sources]

\* fts_error: None, str(e) or "FTS search failed: {e}"
FtsError(outcome) ==
    IF outcome = "ok" THEN None
    ELSE IF outcome = "DatabaseNotInitializedError"
    THEN "Database not initialized. Run the indexer first to create tables."
    ELSE "FTS search failed: error"

\* a lexical channel whose failure leaves no trace
RipgrepErrorDropped(outcome) == None

\* ripgrep_error: None, str(e) or "Ripgrep search failed: {e}"
RipgrepError(outcome) ==
    IF outcome = "ok" THEN None
    ELSE IF outcome = "RipgrepNotFoundError"
    THEN "ripgrep (rg) not found. Install with: sudo apt install ripgrep"
    ELSE "Ripgrep search failed: error"

NoSearchIn == [query |-> "hello", root |-> <<>>, limit |-> 1,
               fts |-> [outcome |-> "ok", hits |-> <<>>],
               rg |-> [outcome |-> "ok", hits |-> <<>>]]

NoSearchOut == [raised |-> "no",
                stats |-> [fts_count |-> 0, ripgrep_count |-> 0,
                           combined_count |-> 0, returned_count |-> 0,
                           fts_error |-> None, ripgrep_error |-> None],
                results |-> <<>>]

\* search_combined(root_path, db_path, query, limit)
SearchCombined(in) ==
    IF in.query = ""
    THEN [NoSearchOut EXCEPT !.raised = "EmptyQueryError"]
    ELSE
    LET fts_results == IF in.fts.outcome = "ok"
                       THEN [k \in 1..Len(in.fts.hits) |->
                                FtsResult(in.fts.hits[k])]
                       ELSE <<>>
        ripgrep_results == IF in.rg.outcome = "ok"
                           THEN [k \in 1..Len(in.rg.hits) |->
                                    RipgrepResult(in.root, in.rg.hits[k])]
                           ELSE <<>>
        fts_error == FtsError(in.fts.outcome)
        ripgrep_error == RipgrepError(in.rg.outcome)
        combined == AddRipgrep(AddFts(<<>>, fts_results), ripgrep_results)
        scored == [k \in 1..Len(combined) |-> Scored(combined[k])]
        sorted_items == SortedItems(scored)
        returned == IF Len(sorted_items) < in.limit THEN Len(sorted_items)
                    ELSE in.limit
        final_results == [k \in 1..returned |-> ToDict(sorted_items[k])]
    IN IF fts_error # None /\ ripgrep_error # None
       THEN [NoSearchOut EXCEPT !.stats.fts_error = fts_error,
                                !.stats.ripgrep_error = ripgrep_error]
       ELSE [raised |-> "no",
             stats |-> [fts_count |-> Len(fts_results),
                        ripgrep_count |-> Len(ripgrep_results),
                        combined_count |-> Len(combined),
                        returned_count |-> Len(final_results),
                        fts_error |-> fts_error,
                        ripgrep_error |-> ripgrep_error],
             results |-> final_results]

(***************************************************************************)
(* cmd_related and cmd_duplicates (similarity.py).  Texts and paths are    *)
(* tuples of one-character strings.  IDF values are in units of 0.1 and    *)
(* similarities in units of 0.0001.                                        *)
(***************************************************************************)
\* the characters of each line token
LineText(line) ==
    IF line = "blank" THEN <<>>
    ELSE IF line = "sep" THEN <<"-", "-", "-">>
    ELSE IF line = "text"
    THEN <<"h", "e", "l", "l", "o", " ", "w", "o", "r", "l", "d">>
    ELSE IF line = "hdr" THEN <<"#", " ", "I", "n", "t", "r", "o">>
    ELSE IF line = "ts"
    THEN <<"2", "0", "2", "4", "-", "0", "1", "-", "1", "5", " ", "1", "0", ":", "3", "0", ":", "4", "5", " ", "u", "p">>
    ELSE IF line = "def" THEN <<"d", "e", "f", " ", "f", "(", ")", ":">>
    ELSE IF line = "cmt" THEN <<"#", " ", "=", "=", "=">>
    ELSE IF line = "dhdr"
    THEN <<"#", "#", "#", "#", " ", "2", "0", "2", "4", "-", "0", "1", "-", "1", "5", ":">>
    ELSE <<"0", "1", "/", "1", "5", "/", "2", "0", "2", "4", " ", "n", "o", "t", "e", "s">>

RECURSIVE TextOf(_)
\* the text of a content: its lines, joined by "\n"
TextOf(lines) ==
    IF lines = <<>> THEN <<>>
    ELSE IF Len(lines) = 1 THEN LineText(lines[1])
    ELSE LineText(lines[1]) \o <<"\n">> \o TextOf(Tail(lines))

\* str.lower(), on the letters the modelled texts hold
Lower(c) == IF c = "I" THEN "i" ELSE c

AlphaNumeric ==
    {"a", "b", "c", "d", "e", "f", "g", "h", "i", "j", "k", "l", "m", "n", "o",
     "p", "q", "r", "s", "t", "u", "v", "w", "x", "y", "z",
     "0", "1", "2", "3", "4", "5", "6", "7", "8", "9"}

Whitespace == {" ", "\n", "\t", "\r"}

RECURSIVE Split(_, _)
\* str.split(): the runs of characters between white space; word is the run
\* being read
Split(text, word) ==
    IF text = <<>> THEN (IF word = <<>> THEN <<>> ELSE <<word>>)
    ELSE IF Head(text) \in Whitespace
         THEN (IF word = <<>> THEN <<>> ELSE <<word>>) \o Split(Tail(text), <<>>)
    ELSE Split(Tail(text), Append(word, Head(text)))

stop_words == {
    <<"a">>, <<"a", "n">>, <<"a", "n", "d">>, <<"a", "r", "e">>,
    <<"a", "s">>, <<"a", "t">>, <<"b", "e">>, <<"b", "y">>,
    <<"f", "o", "r">>, <<"f", "r", "o", "m">>, <<"h", "a", "s">>,
    <<"h", "e">>, <<"i", "n">>, <<"i", "s">>, <<"i", "t">>,
    <<"i", "t", "s">>, <<"o", "f">>, <<"o", "n">>, <<"o", "r">>,
    <<"t", "h", "a", "t">>, <<"t", "h", "e">>, <<"t", "o">>,
    <<"w", "a", "s">>, <<"w", "e", "r", "e">>, <<"w", "i", "l", "l">>,
    <<"w", "i", "t", "h">>, <<"t", "h", "i", "s">>, <<"b", "u", "t">>,
    <<"t", "h", "e", "y">>, <<"h", "a", "v", "e">>, <<"h", "a", "d">>,
    <<"w", "h", "a", "t">>, <<"w", "h", "e", "n">>,
    <<"w", "h", "e", "r", "e">>, <<"w", "h", "o">>,
    <<"w", "h", "i", "c", "h">>, <<"w", "h", "y">>, <<"h", "o", "w">>,
    <<"a", "l", "l">>, <<"e", "a", "c", "h">>, <<"e", "v", "e", "r", "y">>,
    <<"b", "o", "t", "h">>, <<"f", "e", "w">>, <<"m", "o", "r", "e">>,
    <<"m", "o", "s", "t">>, <<"o", "t", "h", "e", "r">>,
    <<"s", "o", "m", "e">>, <<"s", "u", "c", "h">>, <<"n", "o">>,
    <<"n", "o", "r">>, <<"n", "o", "t">>, <<"o", "n", "l", "y">>,
    <<"o", "w", "n">>, <<"s", "a", "m", "e">>, <<"s", "o">>,
    <<"t", "h", "a", "n">>, <<"t", "o", "o">>, <<"v", "e", "r", "y">>,
    <<"c", "a", "n">>, <<"j", "u", "s", "t">>,
    <<"s", "h", "o", "u", "l", "d">>, <<"n", "o", "w">>,
    <<"a", "l", "s", "o">> }

\* re.sub(r'[^a-zA-Z0-9\s]', ' ', text.lower())
Cleaned(text) ==
    [i \in 1..Len(text) |->
        IF Lower(text[i]) \in AlphaNumeric \cup Whitespace
        THEN Lower(text[i]) ELSE " "]

\* _tokenize
Tokenize(text) ==
    IF text = <<>> THEN <<>>
    ELSE SelectSeq(Split(Cleaned(text), <<>>),
                   LAMBDA word : Len(word) >= 2 /\ word \notin stop_words)

\* Counter(tokens): the terms, and how often each occurs
Terms(tokens) == {tokens[i] : i \in 1..Len(tokens)}

Count(tokens, term) == Cardinality({i \in 1..Len(tokens) : tokens[i] = term})

\* math.log(total_docs / count) + 1, in units of 0.1, for up to three
\* documents
LogPlusOne(total_docs, count) ==
    IF total_docs = count THEN 10
    ELSE IF total_docs = 2 * count THEN 17
    ELSE IF total_docs = 3 * count THEN 21
    ELSE 14

\* _compute_idf: a function from the terms of all documents
ComputeIdf(documents) ==
    LET all_terms == UNION {Terms(documents[i]) : i \in 1..Len(documents)}
    IN [term \in all_terms |->
           LogPlusOne(Len(documents),
                      Cardinality({i \in 1..Len(documents) :
                                      term \in Terms(documents[i])}))]

\* _compute_tf and _compute_tfidf_vector: count * idf for each term of the
\* document (the division by len(tokens) is left to the normalization,
\* which cancels it)
ComputeTfidfVector(tokens, idf) ==
    [term \in Terms(tokens) |-> Count(tokens, term) * idf[term]]

RECURSIVE SumOver(_, _)
\* sum(f[x] for x in S)
SumOver(f, S) ==
    IF S = {} THEN 0
    ELSE LET x == CHOOSE y \in S : TRUE IN f[x] + SumOver(f, S \ {x})

RECURSIVE SqrtBetween(_, _, _)
\* the integer part of math.sqrt(n), known to lie in lo..hi
SqrtBetween(n, lo, hi) ==
    IF lo = hi THEN lo
    ELSE LET mid == (lo + hi + 1) \div 2
         IN IF mid * mid <= n THEN SqrtBetween(n, mid, hi)
            ELSE SqrtBetween(n, lo, mid - 1)

\* _normalize_vector applied to both vectors, then _cosine_similarity: the
\* dot product over the common terms divided by both magnitudes, in units
\* of 0.0001
CosineSimilarity(vec1, vec2) ==
    LET common_terms == DOMAIN vec1 \cap DOMAIN vec2
        dot == SumOver([t \in common_terms |-> vec1[t] * vec2[t]], common_terms)
        norm1 == SumOver([t \in DOMAIN vec1 |-> vec1[t] * vec1[t]], DOMAIN vec1)
        norm2 == SumOver([t \in DOMAIN vec2 |-> vec2[t] * vec2[t]], DOMAIN vec2)
    IN IF DOMAIN vec1 = {} \/ DOMAIN vec2 = {} \/ common_terms = {} THEN 0
       ELSE (dot * 10000) \div SqrtBetween(norm1 * norm2, 0, 46340)

NoRelatedArg == [filepath |-> <<>>, top |-> 1]

NoSimilarityOut == [raised |-> "no", target |-> <<>>, similar |-> <<>>,
                    total_files |-> 0, error |-> None, message |-> None,
                    exact_duplicates |-> <<>>, near_duplicates |-> <<>>]

\* str.endswith(suffix)
EndsWithStr(s, suffix) ==
    /\ Len(suffix) <= Len(s)
    /\ SubSeq(s, Len(s) - Len(suffix) + 1, Len(s)) = suffix

\* Path(p).name: what follows the last "/"
PathName(p) ==
    LET slashes == {i \in 1..Len(p) : p[i] = "/"}
    IN IF slashes = {} THEN p
       ELSE SubSeq(p, (CHOOSE i \in slashes : \A j \in slashes : j <= i) + 1,
                   Len(p))

\* filepath_variants of cmd_related
FilepathVariants(filepath) ==
    IF filepath # <<>> /\ filepath[1] = "/"
    THEN {filepath, PathName(filepath)} ELSE {filepath}

\* the row cmd_related takes for the target (0 when there is none): the
\* last row that is the path, one of its variants or a string suffix of it;
\* failing that, the first row with the same file name
TargetDoc(rows, filepath) ==
    LET matching == {i \in 1..Len(rows) :
                        \/ rows[i].file_path = filepath
                        \/ rows[i].file_path \in FilepathVariants(filepath)
                        \/ EndsWithStr(filepath, rows[i].file_path)}
        named == {i \in 1..Len(rows) :
                        PathName(rows[i].file_path) = PathName(filepath)}
    IN IF matching # {} THEN CHOOSE i \in matching : \A j \in matching : j <= i
       ELSE IF named # {} THEN CHOOSE i \in named : \A j \in named : i <= j
       ELSE 0

\* the token lists of the rows, in row order
DocumentTokens(rows) == [i \in 1..Len(rows) |-> Tokenize(TextOf(rows[i].content))]

\* the TF-IDF vectors of the rows, in row order
Vectors(rows) ==
    LET tokens == DocumentTokens(rows)
        idf == ComputeIdf(tokens)
    IN [i \in 1..Len(rows) |-> ComputeTfidfVector(tokens[i], idf)]

\* list.sort(key=lambda x: -x["similarity"]): stable, highest first
SortedBySimilarity(entries) ==
    LET n == Len(entries)
        rank(i) == Cardinality({j \in 1..n :
                        \/ entries[j].similarity > entries[i].similarity
                        \/ /\ entries[j].similarity = entries[i].similarity
                           /\ j < i}) + 1
    IN [k \in 1..n |-> entries[CHOOSE i \in 1..n : rank(i) = k]]

\* similarities of cmd_related: every other row whose similarity to the
\* target is above zero
Similarities(rows, target) ==
    LET vectors == Vectors(rows)
        sim(i) == CosineSimilarity(vectors[target], vectors[i])
        kept == SelectSeq([i \in 1..Len(rows) |-> i],
                    LAMBDA i : /\ rows[i].file_path # rows[target].file_path
                               /\ sim(i) > 0)
    IN [k \in 1..Len(kept) |->
           [file_path |-> rows[kept[k]].file_path, similarity |-> sim(kept[k])]]

\* cmd_related(db_path, filepath, top) over the rows of files
CmdRelatedResult(rows, filepath, top) ==
    LET target == TargetDoc(rows, filepath)
        sorted == SortedBySimilarity(Similarities(rows, target))
    IN IF rows = <<>>
       THEN [NoSimilarityOut EXCEPT !.target = filepath,
                                    !.error = "No files in index"]
       ELSE IF target = 0
       THEN [NoSimilarityOut EXCEPT !.raised = "FileNotIndexedError"]
       ELSE IF Len(rows) < 2
       THEN [NoSimilarityOut EXCEPT !.target = rows[target].file_path,
                                    !.total_files = 1,
                                    !.message = "Only one file in index"]
       ELSE IF DOMAIN Vectors(rows)[target] = {}
       THEN [NoSimilarityOut EXCEPT
                !.target = rows[target].file_path,
                !.total_files = Len(rows),
                !.message = "Target file has no analyzable content"]
       ELSE [NoSimilarityOut EXCEPT
                !.target = rows[target].file_path,
                !.similar = SubSeq(sorted, 1, IF top < Len(sorted) THEN top
                                              ELSE Len(sorted)),
                !.total_files = Len(rows)]


(***************************************************************************)
(* The indexer's state machine.                                            *)
(***************************************************************************)
\* a new store and an empty directory, no call in progress
IndexIdle ==
    /\ fs = [p \in Paths |-> NoFile]
    /\ searchignore = <<>>
    /\ db = EmptyDb
    /\ tx = EmptyDb
    /\ pc = "idle"
    /\ scan = NoScan
    /\ pending = {}
    /\ result = NoResult
    /\ passes = 0
    /\ edits = 0
    /\ touched = FALSE
    /\ steady = TRUE
    /\ mount_out = NoMountOut

\* extract_sections is not called
SectionsIdle ==
    /\ sx_content = <<"blank">>
    /\ sx_type = "txt"
    /\ sx_sections = <<>>
    /\ sx_pc = "off"

\* search_combined is not called
\* no search result is being enriched
NoEnrichIn == [lines |-> <<>>, file_type |-> "txt", line_number |-> 0,
               section_start_line |-> 0, db_sections |-> <<>>]
NoSection == [line_start |-> 0, line_end |-> 0, section_date |-> None,
              section_header |-> "", section_type |-> ""]
NoEnrichOut == [db_section |-> NoSection, section_start |-> 0,
                section_context |-> <<>>]

EnrichIdle ==
    /\ en_in = NoEnrichIn
    /\ en_out = NoEnrichOut
    /\ en_pc = "off"

SearchIdle ==
    /\ se_in = NoSearchIn
    /\ se_out = NoSearchOut
    /\ se_pc = "off"
    /\ EnrichIdle

\* cmd_related and cmd_duplicates are not called
\* SUBSTR(content, 1, 500)
PrefixChars == 500

ContentPrefix(content) ==
    LET text == TextOf(content)
    IN SubSeq(text, 1, IF Len(text) < PrefixChars THEN Len(text)
                       ELSE PrefixChars)

RECURSIVE JoinWords(_)
\* ' '.join(words)
JoinWords(words) ==
    IF words = <<>> THEN <<>>
    ELSE IF Len(words) = 1 THEN words[1]
    ELSE words[1] \o <<" ">> \o JoinWords(Tail(words))

\* _compute_prefix_similarity: the fraction matches / max_len, kept as its
\* two terms
ComputePrefixSimilarity(text1, text2) ==
    LET t1 == JoinWords(Split(text1, <<>>))
        t2 == JoinWords(Split(text2, <<>>))
        max_len == IF Len(t1) > Len(t2) THEN Len(t1) ELSE Len(t2)
        min_len == IF Len(t1) < Len(t2) THEN Len(t1) ELSE Len(t2)
        matches == Cardinality({i \in 1..min_len : t1[i] = t2[i]})
    IN IF t1 = <<>> /\ t2 = <<>> THEN [matches |-> 1, max_len |-> 1]
       ELSE IF t1 = <<>> \/ t2 = <<>> THEN [matches |-> 0, max_len |-> 1]
       ELSE [matches |-> matches, max_len |-> max_len]

\* similarity >= 0.80
AtLeastThreshold(similarity) == 5 * similarity.matches >= 4 * similarity.max_len

\* round(similarity, 4), in units of 0.0001
RoundRatio(similarity) ==
    (2 * 10000 * similarity.matches + similarity.max_len)
        \div (2 * similarity.max_len)

\* the rows holding a fingerprint, and the fingerprints in the order in
\* which the rows first show them (hash_groups)
RowsWithHash(rows, h) == {i \in 1..Len(rows) : rows[i].content_hash = h}

FirstOfHash(rows) ==
    SelectSeq([i \in 1..Len(rows) |-> i],
              LAMBDA i : \A j \in 1..(i - 1) :
                            rows[j].content_hash # rows[i].content_hash)

\* exact_duplicates: one group for each fingerprint held by more than one
\* row; files is sorted(paths), given as the set of the paths
ExactDuplicates(rows) ==
    LET shared == SelectSeq(FirstOfHash(rows),
                    LAMBDA i : Cardinality(RowsWithHash(rows,
                                              rows[i].content_hash)) > 1)
    IN [k \in 1..Len(shared) |->
          LET members == RowsWithHash(rows, rows[shared[k]].content_hash)
          IN [content_hash |-> rows[shared[k]].content_hash,
              files |-> {rows[i].file_path : i \in members},
              count |-> Cardinality(members)]]

\* no path taken as part of an exact group
ExactPathsNone(rows) == {}

\* exact_paths
ExactPaths(rows) ==
    LET groups == ExactDuplicates(rows)
    IN UNION {groups[k].files : k \in 1..Len(groups)}

RECURSIVE NearPairs(_, _, _)
\* the near-duplicate loop from the pair (i, j) on: every pair i < j of
\* rows outside the exact groups, with different fingerprints, whose
\* prefixes are similar enough
NearPairs(rows, i, j) ==
    IF i > Len(rows) THEN <<>>
    ELSE IF j > Len(rows) THEN NearPairs(rows, i + 1, i + 2)
    ELSE LET similarity == ComputePrefixSimilarity(
                               ContentPrefix(rows[i].content),
                               ContentPrefix(rows[j].content))
             reported == /\ rows[i].file_path \notin ExactPaths(rows)
                         /\ rows[j].file_path \notin ExactPaths(rows)
                         /\ rows[i].content_hash # rows[j].content_hash
                         /\ AtLeastThreshold(similarity)
         IN (IF reported
             THEN <<[files |-> <<rows[i].file_path, rows[j].file_path>>,
                     similarity |-> RoundRatio(similarity)]>>
             ELSE <<>>) \o NearPairs(rows, i, j + 1)

\* cmd_duplicates(db_path) over the rows of files
CmdDuplicatesResult(rows) ==
    [NoSimilarityOut EXCEPT
        !.exact_duplicates = ExactDuplicates(rows),
        !.near_duplicates = SortedBySimilarity(NearPairs(rows, 1, 2)),
        !.total_files = Len(rows)]

NoArgs == [name |-> "none"]

FunctionIdle ==
    /\ fn_in = NoArgs
    /\ fn_out = NoArgs
    /\ fn_pc = "off"

SimilarityIdle ==
    /\ sm_store = <<>>
    /\ sm_arg = NoRelatedArg
    /\ sm_out = NoSimilarityOut
    /\ sm_pc = "off"

Init == IndexIdle /\ SectionsIdle /\ SearchIdle /\ SimilarityIdle /\ FunctionIdle

Running == pc \in {"scanned", "tx"}

\* what a change of the directory does to the call in progress, if any
AfterEdit ==
    /\ edits < MaxEdits
    /\ edits' = edits + 1
    /\ IF Running
       THEN /\ touched' = TRUE
            /\ UNCHANGED <<pc, scan, pending, result, tx>>
       ELSE /\ touched' = FALSE
            /\ pc' = "idle"
            /\ scan' = NoScan
            /\ pending' = {}
            /\ result' = NoResult
            /\ tx' = db
    /\ UNCHANGED <<db, passes, steady, mount_out, fnVars>>

\* a file is created or overwritten
WriteFile(p, b) ==
    /\ fs[p] # File(b)
    /\ fs' = [fs EXCEPT ![p] = File(b)]
    /\ UNCHANGED searchignore
    /\ AfterEdit

\* a file is removed
RemoveFile(p) ==
    /\ fs[p].exists
    /\ fs' = [fs EXCEPT ![p] = NoFile]
    /\ UNCHANGED searchignore
    /\ AfterEdit

\* a file's read permission is taken away or given back
ChmodFile(p) ==
    /\ fs[p].exists
    /\ fs' = [fs EXCEPT ![p].readable = ~@]
    /\ UNCHANGED searchignore
    /\ AfterEdit

\* .searchignore is written or removed
WriteSearchignore(ignore) ==
    /\ ignore # searchignore
    /\ searchignore' = ignore
    /\ UNCHANGED fs
    /\ AfterEdit

\* index_files, from its entry to the diff (the transaction not yet begun)
Scan(caller) ==
    /\ ~Running
    /\ passes < MaxPasses
    /\ passes' = passes + 1
    /\ scan' = ScanAndDiff(fs, BuildPatterns(searchignore, caller), db)
    /\ pc' = "scanned"
    /\ tx' = db
    /\ pending' = {}
    /\ result' = NoResult
    /\ touched' = FALSE
    /\ UNCHANGED <<fs, searchignore, db, edits, steady, mount_out, fnVars>>

\* BEGIN IMMEDIATE and the two delete loops
TxDelete ==
    /\ pc = "scanned"
    /\ tx' = DeleteChanged(DeleteRemoved(db, scan.to_delete), scan.to_update)
    /\ pending' = scan.to_add \cup scan.to_update
    /\ pc' = "tx"
    /\ UNCHANGED <<fs, searchignore, db, scan, result, passes, edits, touched,
                   steady, mount_out, fnVars>>

\* one iteration of the insert loop
TxInsert(p) ==
    /\ pc = "tx"
    /\ p \in pending
    /\ pending' = pending \ {p}
    /\ IF ContentIsNone(fs[p])
       THEN /\ scan' = [scan EXCEPT !.errors =
                           @ \cup {[file |-> p, error |-> "content"]}]
            /\ UNCHANGED tx
       ELSE /\ p \notin FilePaths(tx)
            /\ tx' = InsertFile(tx, p, fs[p], scan.current_files[p])
            /\ UNCHANGED scan
    /\ UNCHANGED <<fs, searchignore, db, pc, result, passes, edits, touched,
                   steady, mount_out, fnVars>>

\* the manifest update, COMMIT and the return
TxCommit ==
    /\ pc = "tx"
    /\ pending = {}
    /\ db' = [tx EXCEPT !.manifest = ManifestOf(tx, scan.current_files)]
    /\ tx' = db'
    /\ result' = [status |-> "ok",
                  added |-> Cardinality(scan.to_add),
                  updated |-> Cardinality(scan.to_update),
                  deleted |-> Cardinality(scan.to_delete),
                  unchanged |-> scan.unchanged,
                  total |-> Cardinality(DOMAIN scan.current_files),
                  errors |-> scan.errors]
    /\ pc' = "returned"
    /\ steady' = (steady /\ ~touched)
    /\ UNCHANGED <<fs, searchignore, scan, pending, passes, edits, touched,
                   mount_out, fnVars>>

\* a statement of the transaction raises (stat on a vanished file, an SQLite
\* error): ROLLBACK, and index_files raises RuntimeError
TxRollback ==
    /\ pc = "tx"
    /\ db' = RolledBack(db, tx)
    /\ tx' = db'
    /\ result' = [NoResult EXCEPT !.status = "raised"]
    /\ pc' = "raised"
    /\ UNCHANGED <<fs, searchignore, scan, pending, passes, edits, touched,
                   steady, mount_out, fnVars>>

\* the caller of a cmd_* function gets its result; no index_files call is
\* in progress, and the locals of the last one are gone
CmdReturns ==
    /\ ~Running
    /\ edits < MaxEdits
    /\ edits' = edits + 1
    /\ pc' = "idle"
    /\ scan' = NoScan
    /\ pending' = {}
    /\ result' = NoResult
    /\ tx' = db'
    /\ UNCHANGED <<fs, searchignore, passes, touched, steady, fnVars>>

\* a cmd_mount that lets a second source take an alias in use
CmdMountAnyAlias(path, alias) ==
    /\ LET dir_path == Resolve(path)
           failed(error) == /\ db' = db
                            /\ mount_out' = [NoMountOut EXCEPT
                                                !.call = "cmd_mount",
                                                !.path = path,
                                                !.alias = alias,
                                                !.error = error]
       IN IF dir_path \notin ExistingDirs
          THEN failed("Path does not exist")
          ELSE IF Strip(alias) = ""
          THEN failed("Alias cannot be empty")
          ELSE IF \E src \in db.sources : src.absolute_path = dir_path
          THEN failed("Path already mounted")
          ELSE /\ db' = [db EXCEPT
                           !.sources = @ \cup
                               {[source_id |-> db.seq_sources + 1,
                                 alias |-> Strip(alias),
                                 absolute_path |-> dir_path,
                                 file_count |-> 0]},
                           !.seq_sources = @ + 1]
               /\ mount_out' = [NoMountOut EXCEPT
                                   !.call = "cmd_mount",
                                   !.path = path,
                                   !.alias = alias,
                                   !.success = TRUE,
                                   !.source_id = db.seq_sources + 1]
    /\ CmdReturns

\* cmd_mount(db_path, path, alias)
CmdMount(path, alias) ==
    /\ LET dir_path == Resolve(path)
           failed(error) == /\ db' = db
                            /\ mount_out' = [NoMountOut EXCEPT
                                                !.call = "cmd_mount",
                                                !.path = path,
                                                !.alias = alias,
                                                !.error = error]
       IN IF dir_path \notin ExistingDirs
          THEN failed("Path does not exist")
          ELSE IF Strip(alias) = ""
          THEN failed("Alias cannot be empty")
          ELSE IF \E src \in db.sources : src.alias = Strip(alias)
          THEN failed("Alias already exists")
          ELSE IF \E src \in db.sources : src.absolute_path = dir_path
          THEN failed("Path already mounted")
          ELSE /\ db' = [db EXCEPT
                           !.sources = @ \cup
                               {[source_id |-> db.seq_sources + 1,
                                 alias |-> Strip(alias),
                                 absolute_path |-> dir_path,
                                 file_count |-> 0]},
                           !.seq_sources = @ + 1]
               /\ mount_out' = [NoMountOut EXCEPT
                                   !.call = "cmd_mount",
                                   !.path = path,
                                   !.alias = alias,
                                   !.success = TRUE,
                                   !.source_id = db.seq_sources + 1]
    /\ CmdReturns

CmdUnmount(alias) ==
    /\ IF \E src \in db.sources : src.alias = Strip(alias)
       THEN LET source == CHOOSE src \in db.sources : src.alias = Strip(alias)
            IN /\ db' = [db EXCEPT
                           !.files = {r \in @ : r.source_id # source.source_id},
                           !.sources = @ \ {source}]
               /\ mount_out' = [NoMountOut EXCEPT
                                   !.call = "cmd_unmount",
                                   !.alias = alias,
                                   !.success = TRUE,
                                   !.source_id = source.source_id]
       ELSE /\ db' = db
            /\ mount_out' = [NoMountOut EXCEPT
                                !.call = "cmd_unmount",
                                !.alias = alias,
                                !.error = IF Strip(alias) = ""
                                          THEN "Alias cannot be empty"
                                          ELSE "Source not found"]
    /\ CmdReturns

Next ==
    \/ \E path \in MountDirs, alias \in Aliases : CmdMount(path, alias)
    \/ \E alias \in Aliases : CmdUnmount(alias)
    \/ \E p \in Paths, b \in Bytes : WriteFile(p, b)
    \/ \E p \in Paths : RemoveFile(p)
    \/ \E p \in Paths : ChmodFile(p)
    \/ \E ignore \in IgnoreFiles : WriteSearchignore(ignore)
    \/ \E caller \in CallerPatterns : Scan(caller)
    \/ TxDelete
    \/ \E p \in Paths : TxInsert(p)
    \/ TxCommit
    \/ TxRollback

Spec == Init /\ [][Next]_vars

(***************************************************************************)
(* Properties of the indexer, checked under Spec.                          *)
(***************************************************************************)
Commits == pc = "tx" /\ pc' = "returned"

ErrorFiles(errors, kind) == {e.file : e \in {x \in errors : x.error = kind}}

\* the Document a files row stands for
Docs(d) == {[path |-> r.file_path, content |-> r.content,
             fingerprint |-> r.content_hash] : r \in d.files}

RECURSIVE InsertAll(_, _, _, _)
\* the insert loop over the files S of a directory that does not change
InsertAll(d, S, fsx, current_files) ==
    IF S = {} THEN d
    ELSE LET p == CHOOSE x \in S : TRUE
         IN InsertAll(IF ContentIsNone(fsx[p]) THEN d
                      ELSE InsertFile(d, p, fsx[p], current_files[p]),
                      S \ {p}, fsx, current_files)

\* index_files run to its COMMIT against an empty store
IndexFromEmpty(fsx, patterns) ==
    LET sc == ScanAndDiff(fsx, patterns, EmptyDb)
        d == DeleteChanged(DeleteRemoved(EmptyDb, sc.to_delete), sc.to_update)
    IN InsertAll(d, sc.to_add \cup sc.to_update, fsx, sc.current_files)

\* C1: an index_files pass is atomic.  While the pass runs, and when it
\* raises, the committed store is what it was before the pass; the one step
\* that changes it, the COMMIT, installs the whole pass: no row of a deleted
\* or changed path survives, every path to insert has its new row or an
\* error, and every other row is kept.
C1_PassIsAtomic ==
    [][ /\ (Running' => db' = db)
        /\ (pc = "tx" /\ pc' = "raised" => db' = db)
        /\ (Commits =>
              /\ \A r \in db.files :
                    IF r.file_path \in scan.to_delete \cup scan.to_update
                    THEN r \notin db'.files
                    ELSE r \in db'.files
              /\ \A p \in scan.to_delete : p \notin FilePaths(db')
              /\ \A p \in scan.to_add \cup scan.to_update :
                    \/ /\ p \in FilePaths(db')
                       /\ RowOf(db', p).content_hash = scan.current_files[p]
                    \/ p \in ErrorFiles(result'.errors, "content")
              /\ db'.manifest.present) ]_vars

\* C1 witness: a pass that had deleted rows and inserted a file raised, and
\* the store still holds the rows the pass had deleted.
C1_Witness ==
    /\ pc = "raised"
    /\ scan.to_delete \cup scan.to_update # {}
    /\ pending # scan.to_add \cup scan.to_update
    /\ \A p \in scan.to_delete \cup scan.to_update : p \in FilePaths(db)

\* C2: idempotent convergence.  A pass over a directory that holds still,
\* after passes that each saw a directory holding still, commits the
\* Documents that a pass over that directory commits into an empty store;
\* and when the store already holds them (the directory is as the previous
\* pass left it), the pass changes no files row.
C2_Convergence ==
    [][ Commits /\ steady' =>
          /\ Docs(db') = Docs(IndexFromEmpty(fs, scan.patterns))
          /\ (Docs(db) = Docs(IndexFromEmpty(fs, scan.patterns))
                => db'.files = db.files) ]_vars

\* C2 witness: a second pass over a changed directory updated or deleted a
\* Document, every pass having seen a directory that held still.
C2_Witness ==
    /\ pc = "returned"
    /\ steady
    /\ passes = 2
    /\ result.updated + result.deleted >= 1
    /\ db.files # {}

\* C3: fingerprint equality is necessary and sufficient for "unchanged".
\* For every indexed file that the scan hashed: if its bytes differ from the
\* bytes indexed last, the pass counts it as updated and replaces its
\* Document by one holding the new content; if they are identical, the pass
\* counts it as unchanged and leaves its row untouched.
C3_FingerprintDecides ==
    [][ Commits =>
          \A p \in FilePaths(db) \cap DOMAIN scan.seen :
              IF scan.seen[p] # RowOf(db, p).raw
              THEN /\ p \in scan.to_update
                   /\ p \in FilePaths(db')
                   /\ RowOf(db', p).content = Decode(scan.seen[p])
              ELSE /\ p \notin scan.to_update
                   /\ RowOf(db, p) \in db'.files ]_vars

\* C4: a file whose fingerprinting raised is in the error list and in none
\* of the four sets, whether or not it was indexed before.
C4_UnreadableInNoSet ==
    \A p \in ErrorFiles(scan.errors, "hash") :
        /\ p \notin scan.to_add
        /\ p \notin scan.to_delete
        /\ p \notin scan.to_update
        /\ p \notin DOMAIN scan.current_files

\* C5: after a successful pass the Manifest's document count is the number
\* of Documents in the store, and its aggregate fingerprint is the hash of
\* the sorted fingerprints of exactly those Documents.
C5_ManifestMatchesStore ==
    pc = "returned" =>
        /\ db.manifest.present
        /\ db.manifest.total_files = Cardinality(db.files)
        /\ db.manifest.content_hash =
               CombinedHash(SortedValues(GetIndexedFiles(db), FilePaths(db)))

\* the split of a pass: additions, deletions, changed, unchanged
C6_Split ==
    LET indexed == DOMAIN scan.indexed_files
        current == DOMAIN scan.current_files
        same == {p \in indexed \cap current :
                    scan.current_files[p] = scan.indexed_files[p]}
    IN /\ Running => scan.indexed_files = GetIndexedFiles(db)
       /\ scan.to_add = current \ indexed
       /\ scan.to_delete = indexed \ current
       /\ scan.to_update = (indexed \cap current) \ same
       /\ scan.unchanged = Cardinality(same)
       /\ scan.to_add \cap scan.to_delete = {}
       /\ scan.to_add \cap scan.to_update = {}
       /\ scan.to_delete \cap scan.to_update = {}
       /\ same \cap (scan.to_add \cup scan.to_delete \cup scan.to_update) = {}
       /\ pc = "returned" =>
             /\ result.added = Cardinality(scan.to_add)
             /\ result.updated = Cardinality(scan.to_update)
             /\ result.deleted = Cardinality(scan.to_delete)
             /\ result.unchanged = Cardinality(same)
             /\ FilePaths(db) \cap scan.to_delete = {}

\* C6: in every pass the scanned and stored paths are split into additions,
\* deletions, changed and unchanged, pairwise disjoint; the returned counts
\* are their sizes; after the pass no deleted path is in the store; and a
\* pass whose only change is one deleted file returns deleted = 1, leaves
\* the document out of the store and changes the Manifest's aggregate
\* fingerprint.
C6_DiffAndCounts ==
    [][ /\ C6_Split'
        /\ (/\ Commits
            /\ Cardinality(scan.to_delete) = 1
            /\ scan.to_add = {}
            /\ scan.to_update = {}
            => /\ result'.deleted = 1
               /\ scan.to_delete \cap FilePaths(db') = {}
               /\ db.manifest.present
               /\ db'.manifest.content_hash # db.manifest.content_hash) ]_vars

\* C6 witness: one indexed file was deleted from the directory, the other
\* stayed as it was, and the pass returned deleted = 1.
C6_Witness ==
    /\ pc = "returned"
    /\ result.deleted = 1
    /\ result.added = 0
    /\ result.updated = 0
    /\ result.unchanged = 1
    /\ \A p \in scan.to_delete : ~fs[p].exists /\ p \notin FilePaths(db)

\* C7: every persisted Section row refers to a Document that is in the
\* store.
C7_NoOrphanSections ==
    \A sec \in db.file_sections : \E r \in db.files : r.file_id = sec.file_id

C9_FingerprintOfContent ==
    \A r \in db.files :
        \E b \in Bytes : Decode(b) = r.content /\ CalculateFileHash(b) = r.content_hash

(***************************************************************************)
(* extract_sections on its own: every content of up to MaxLines lines and  *)
(* every type tag of TypeTags.                                             *)
(***************************************************************************)
TypeTags == {"md", "log", "py", "txt", "unknown"}

RECURSIVE SeqsUpTo(_, _)
SeqsUpTo(S, n) ==
    IF n = 0 THEN {<<>>}
    ELSE LET shorter == SeqsUpTo(S, n - 1)
         IN shorter \cup {Append(q, x) : q \in shorter, x \in S}

Contents == SeqsUpTo(LineKinds, MaxLines) \ {<<>>}

InitSections ==
    /\ IndexIdle /\ FunctionIdle
    /\ SearchIdle
    /\ SimilarityIdle
    /\ sx_content \in Contents
    /\ sx_type \in TypeTags
    /\ sx_sections = <<>>
    /\ sx_pc = "ready"

\* sections = extract_sections(content, file_type)
Extract ==
    /\ sx_pc = "ready"
    /\ sx_sections' = ExtractSections(sx_content, sx_type)
    /\ sx_pc' = "done"
    /\ UNCHANGED <<sx_content, sx_type, indexVars, seVars, smVars, argVars>>

NextSections == Extract

SpecSections == InitSections /\ [][NextSections]_vars

(***************************************************************************)
(* Properties of extract_sections, checked under SpecSections.             *)
(***************************************************************************)
\* the lines extract_sections counts: trailing blank lines dropped
CountedLines == TrimTrailing(sx_content)

\* the last line that is neither blank nor a separator (0 when none is)
LastContentLine(lines) ==
    LET S == {i \in 1..Len(lines) : ~IsBlankOrSeparator(lines[i])}
    IN IF S = {} THEN 0 ELSE CHOOSE i \in S : \A j \in S : j <= i

\* the sections are ordered by line_start and do not overlap
C10_Ordered ==
    /\ \A i \in 1..Len(sx_sections) :
          /\ 1 <= sx_sections[i].line_start
          /\ sx_sections[i].line_start <= sx_sections[i].line_end
    /\ \A i \in 1..(Len(sx_sections) - 1) :
          sx_sections[i].line_end < sx_sections[i + 1].line_start

\* the returned sections come from blank-line separation
C10_BlankSeparated ==
    /\ sx_sections # <<>>
    /\ sx_type \notin MARKDOWN_EXTENSIONS
    /\ sx_sections[Len(sx_sections)].section_type \in {"blank_sep", "date_header"}

\* C10 as stated: for every content and type tag the sections are ordered,
\* do not overlap, and the last section's line_end is the line count.
C10_LastEndIsLineCount ==
    sx_pc = "done" /\ sx_sections # <<>> =>
        /\ C10_Ordered
        /\ sx_sections[Len(sx_sections)].line_end = Len(CountedLines)

\* C10 amended: the sections are ordered and do not overlap; the last
\* section's line_end is the line count (trailing blank lines not counted),
\* except under blank-line separation, where it is the last line that is
\* neither blank nor a separator.
C10_LastEndAmended ==
    sx_pc = "done" /\ sx_sections # <<>> =>
        /\ C10_Ordered
        /\ sx_sections[Len(sx_sections)].line_end =
               IF C10_BlankSeparated THEN LastContentLine(CountedLines)
               ELSE Len(CountedLines)

\* C10 witness: blank-line separation of a text that ends in a separator
\* line gave two sections, the last one ending before the separator.
C10_Witness ==
    /\ sx_pc = "done"
    /\ Len(sx_sections) = 2
    /\ C10_BlankSeparated
    /\ IsBlankOrSeparator(CountedLines[Len(CountedLines)])
    /\ sx_sections[2].line_end < Len(CountedLines)

\* the sections that hold line i
SectionsOf(i) ==
    {k \in 1..Len(sx_sections) :
        sx_sections[k].line_start <= i /\ i <= sx_sections[k].line_end}

\* the header lines of the counted lines
HeaderLines ==
    {i \in 1..Len(CountedLines) : IsMarkdownHeader(CountedLines[i])}

\* C11: for every non-empty markdown document the sections partition its
\* lines exactly: every line from 1 to the line count lies in exactly one
\* section, each header line starts a section that ends one line before the
\* next header or at the end of the file, and a document with no header
\* yields exactly one section covering the whole file.
C11_MarkdownPartition ==
    sx_pc = "done" /\ sx_type \in MARKDOWN_EXTENSIONS /\ CountedLines # <<>> =>
        /\ \A i \in 1..Len(CountedLines) : Cardinality(SectionsOf(i)) = 1
        /\ \A h \in HeaderLines :
              \E k \in 1..Len(sx_sections) :
                 /\ sx_sections[k].line_start = h
                 /\ sx_sections[k].line_end =
                       IF \E g \in HeaderLines : g > h
                       THEN (CHOOSE g \in HeaderLines :
                                g > h /\ \A f \in HeaderLines : f > h => g <= f) - 1
                       ELSE Len(CountedLines)
        /\ HeaderLines = {} =>
              /\ Len(sx_sections) = 1
              /\ sx_sections[1].line_start = 1
              /\ sx_sections[1].line_end = Len(CountedLines)

\* the date is written on the header line, in any accepted format
DateInHeader(header, date) ==
    date # None /\ ExtractDateFromLine(header) = date

\* C12: for every section returned by extract_sections, whichever strategy
\* produced it and whichever accepted date format the header uses, a section
\* whose date is written in its header has the type tag date_header; and the
\* markdown body "#### 2024-01-15:\nEntry text" yields exactly one section,
\* of type date_header, with section_date 2024-01-15.
C12_DateInHeaderIsDateHeader ==
    sx_pc = "done" =>
        /\ \A k \in 1..Len(sx_sections) :
              DateInHeader(sx_sections[k].section_header,
                           sx_sections[k].section_date)
                 => sx_sections[k].section_type = "date_header"
        /\ sx_type \in MARKDOWN_EXTENSIONS /\ sx_content = <<"dhdr", "text">> =>
              /\ Len(sx_sections) = 1
              /\ sx_sections[1].section_type = "date_header"
              /\ sx_sections[1].section_date = "2024-01-15"

(***************************************************************************)
(* search_combined on its own: every root, every limit up to MaxLimit and  *)
(* every pair of channel results of at most 2 * limit hits (the limit each *)
(* channel is called with), ordered as the channel orders them.            *)
(***************************************************************************)
SearchHits == {[doc |-> d, score |-> sc] : d \in SearchDocs, sc \in ChannelScores}

\* lists of hits on different documents
HitLists ==
    {q \in SeqsUpTo(SearchHits, Cardinality(SearchDocs)) :
        \A i, j \in 1..Len(q) : i # j => q[i].doc # q[j].doc}

\* search_fts: ORDER BY final_score, the strongest (most negative) raw score
\* first, which 1 / (1 + abs(raw)) normalizes to the lowest score
FtsHitLists ==
    {q \in HitLists : \A i \in 1..(Len(q) - 1) : q[i].score <= q[i + 1].score}

\* search_ripgrep: results.sort(key=lambda r: -r.score)
RgHitLists ==
    {q \in HitLists : \A i \in 1..(Len(q) - 1) : q[i].score >= q[i + 1].score}

SearchInputs ==
    {[query |-> "hello", root |-> r, limit |-> l,
      fts |-> [outcome |-> fo, hits |-> fh],
      rg |-> [outcome |-> go, hits |-> gh]] :
        r \in SearchRoots, l \in 1..MaxLimit,
        fo \in FtsOutcomes, go \in RgOutcomes,
        fh \in FtsHitLists, gh \in RgHitLists}

InitSearch ==
    /\ IndexIdle /\ FunctionIdle
    /\ SectionsIdle
    /\ SimilarityIdle
    /\ se_in \in {in \in SearchInputs :
                    /\ Len(in.fts.hits) <= 2 * in.limit
                    /\ Len(in.rg.hits) <= 2 * in.limit
                    /\ in.fts.outcome # "ok" => in.fts.hits = <<>>
                    /\ in.rg.outcome # "ok" => in.rg.hits = <<>>}
               \cup {[NoSearchIn EXCEPT !.query = ""]}
    /\ se_out = NoSearchOut
    /\ se_pc = "ready"
    /\ EnrichIdle

\* se_out = search_combined(root_path, db_path, query, limit)
Search ==
    /\ se_pc = "ready"
    /\ se_out' = SearchCombined(se_in)
    /\ se_pc' = "done"
    /\ UNCHANGED <<se_in, en_in, en_out, en_pc, indexVars, sxVars, smVars, argVars>>

NextSearch == Search

SpecSearch == InitSearch /\ [][NextSearch]_vars

(***************************************************************************)
(* Properties of search_combined, checked under SpecSearch.                *)
(***************************************************************************)
\* the documents a channel hit, and the score it gave them (0: not hit)
HitDocs(channel) == {channel.hits[k].doc : k \in 1..Len(channel.hits)}

ChannelScore(channel, d) ==
    IF d \in HitDocs(channel)
    THEN (CHOOSE h \in {channel.hits[k] : k \in 1..Len(channel.hits)} :
              h.doc = d).score
    ELSE 0

\* the document a result's filepath names: stored as the ranked channel
\* gives it, or below the root as the lexical channel gives it
ResultIsFor(res, d) == res.filepath \in {d, se_in.root \o d}

ResultsFor(d) ==
    {k \in 1..Len(se_out.results) : ResultIsFor(se_out.results[k], d)}

\* the line numbers a returned dictionary carries
LinesOf(res) ==
    IF res.line_numbers # <<>>
    THEN {res.line_numbers[n] : n \in 1..Len(res.line_numbers)}
    ELSE {res.line_number}

\* the call returned a fused list, and the limit cut nothing off it
SearchReturnedAll ==
    /\ se_pc = "done"
    /\ se_out.raised = "no"
    /\ se_out.stats.combined_count <= se_in.limit

\* C13: for every indexed document, whatever its depth under the root, if
\* both channels hit it then the fused list holds exactly one result for it,
\* carrying both provenance tags, the union of both channels' line numbers
\* and the fixed 0.2 bonus.
C13_BothChannelsOneResult ==
    SearchReturnedAll =>
        \A d \in HitDocs(se_in.fts) \cap HitDocs(se_in.rg) :
            /\ Cardinality(ResultsFor(d)) = 1
            /\ \A k \in ResultsFor(d) :
                  LET res == se_out.results[k]
                  IN /\ {res.sources[n] : n \in 1..Len(res.sources)}
                           = {"fts", "ripgrep"}
                     /\ LinesOf(res) =
                           {FtsLine} \cup {RgLines[n] : n \in 1..Len(RgLines)}
                     /\ res.score =
                           Round4(FusedScore(ChannelScore(se_in.fts, d),
                                             ChannelScore(se_in.rg, d),
                                             BOTH_SOURCES_BONUS))

\* the score the claim gives the document d: 0.6 * ranked + 0.4 * lexical,
\* plus 0.2 exactly when both channels hit it, at most 1.0
ClaimedScore(fts_score, ripgrep_score, d) ==
    FusedScore(fts_score, ripgrep_score,
               IF d \in HitDocs(se_in.fts) \cap HitDocs(se_in.rg)
               THEN BOTH_SOURCES_BONUS ELSE 0)

\* C14: every fused result's score (as returned, to four decimals) equals
\* min(1.0, 0.6 * ranked + 0.4 * lexical + bonus), with bonus 0.2 exactly
\* when both channels hit the document and 0 otherwise; the score is
\* non-decreasing in each channel's score and never exceeds 1.0; the list is
\* in non-increasing score order, results of one channel with equal scores
\* in the order the channel gave them, and has at most limit entries.
C14_FusedScore ==
    se_pc = "done" /\ se_out.raised = "no" =>
        /\ \A k \in 1..Len(se_out.results) :
              \A d \in SearchDocs :
                 ResultIsFor(se_out.results[k], d) =>
                    LET f == ChannelScore(se_in.fts, d)
                        r == ChannelScore(se_in.rg, d)
                    IN /\ se_out.results[k].score = Round4(ClaimedScore(f, r, d))
                       /\ se_out.results[k].score <= Round4(ScoreOne)
                       /\ \A x \in ChannelScores :
                             /\ x >= f => ClaimedScore(x, r, d) >= ClaimedScore(f, r, d)
                             /\ x >= r => ClaimedScore(f, x, d) >= ClaimedScore(f, r, d)
        /\ \A k \in 1..(Len(se_out.results) - 1) :
              se_out.results[k].score >= se_out.results[k + 1].score
        /\ \A i, j \in 1..Len(se_in.fts.hits) :
              \A k, m \in 1..Len(se_out.results) :
                 /\ i < j
                 /\ se_in.fts.hits[i].score = se_in.fts.hits[j].score
                 /\ se_out.results[k].sources = <<"fts">>
                 /\ se_out.results[m].sources = <<"fts">>
                 /\ se_out.results[k].filepath = se_in.fts.hits[i].doc
                 /\ se_out.results[m].filepath = se_in.fts.hits[j].doc
                 => k < m
        /\ Len(se_out.results) <= se_in.limit

\* every result comes from a hit of the given channel and from no other
BuiltFrom(tag, paths) ==
    /\ se_out.stats.returned_count = Len(se_out.results)
    /\ Len(se_out.results) <= se_in.limit
    /\ \A k \in 1..Len(se_out.results) :
          /\ \A n \in 1..Len(se_out.results[k].sources) :
                se_out.results[k].sources[n] = tag
          /\ se_out.results[k].filepath \in paths

\* C15: a channel failure is not fatal.  If exactly one channel fails, the
\* result is built from the other channel's hits and the failed channel's
\* error field is set (with the lexical tool absent and ranked hits present,
\* returned_count > 0 and ripgrep_error is set); if both fail, the result
\* has an empty list, returned_count 0 and both error fields set; no
\* exception is raised.
C15_ChannelFailureNotFatal ==
    se_pc = "done" /\ se_in.query # "" =>
        /\ se_out.raised = "no"
        /\ se_in.fts.outcome = "ok" /\ se_in.rg.outcome # "ok" =>
              /\ se_out.stats.ripgrep_error # None
              /\ se_out.stats.fts_error = None
              /\ BuiltFrom("fts", HitDocs(se_in.fts))
              /\ se_in.fts.hits # <<>> => se_out.stats.returned_count > 0
        /\ se_in.fts.outcome # "ok" /\ se_in.rg.outcome = "ok" =>
              /\ se_out.stats.fts_error # None
              /\ se_out.stats.ripgrep_error = None
              /\ BuiltFrom("ripgrep", {se_in.root \o d : d \in HitDocs(se_in.rg)})
              /\ se_in.rg.hits # <<>> => se_out.stats.returned_count > 0
        /\ se_in.fts.outcome # "ok" /\ se_in.rg.outcome # "ok" =>
              /\ se_out.results = <<>>
              /\ se_out.stats.returned_count = 0
              /\ se_out.stats.fts_error # None
              /\ se_out.stats.ripgrep_error # None

\* C15 witness: the lexical tool is absent, the ranked channel has hits, and
\* the call returned them with ripgrep_error set.
C15_Witness ==
    /\ se_pc = "done"
    /\ se_in.rg.outcome = "RipgrepNotFoundError"
    /\ Len(se_in.fts.hits) >= 2
    /\ se_out.stats.returned_count > 0
    /\ se_out.stats.ripgrep_error # None

(***************************************************************************)
(* The similarity commands over every small store: cmd_related for every   *)
(* target and cmd_duplicates.                                              *)
(***************************************************************************)
MaxTop == 2

\* a.md, s/b.txt, x/a.md
StorePaths ==
    {<<"a", ".", "m", "d">>,
     <<"s", "/", "b", ".", "t", "x", "t">>,
     <<"x", "/", "a", ".", "m", "d">>}

\* the paths asked for: a.md, x/a.md, /tmp/root/a.md, b.txt, zz.md
TargetPaths ==
    (StorePaths \ {<<"s", "/", "b", ".", "t", "x", "t">>})
    \cup {<<"/", "t", "m", "p", "/", "r", "o", "o", "t", "/", "a", ".", "m", "d">>,
          <<"b", ".", "t", "x", "t">>,
          <<"z", "z", ".", "m", "d">>}

SimilarityBytes == {B1, B2, B3, B4, B5}

\* the files table after passes over unchanging files: distinct paths in
\* any row order, each with the text and the fingerprint of its bytes
Stores ==
    {[i \in 1..Len(q) |->
        [file_id |-> i, file_path |-> q[i][1], content |-> Decode(q[i][2]),
         content_hash |-> CalculateFileHash(q[i][2])]] :
     q \in {r \in SeqsUpTo(StorePaths \X SimilarityBytes,
                           Cardinality(StorePaths)) :
               \A i, j \in 1..Len(r) : i # j => r[i][1] # r[j][1]}}

InitSimilarity ==
    /\ IndexIdle /\ FunctionIdle /\ SectionsIdle /\ SearchIdle
    /\ sm_store \in Stores
    /\ sm_arg \in [filepath : TargetPaths, top : 1..MaxTop]
    /\ sm_out = NoSimilarityOut
    /\ sm_pc = "ready"

CmdRelated ==
    /\ sm_pc = "ready"
    /\ sm_out' = CmdRelatedResult(sm_store, sm_arg.filepath, sm_arg.top)
    /\ sm_pc' = "related"
    /\ UNCHANGED <<sm_store, sm_arg, indexVars, sxVars, seVars, argVars>>

CmdDuplicates ==
    /\ sm_pc = "ready"
    /\ sm_out' = CmdDuplicatesResult(sm_store)
    /\ sm_pc' = "duplicates"
    /\ UNCHANGED <<sm_store, sm_arg, indexVars, sxVars, seVars, argVars>>

NextSimilarity == CmdRelated \/ CmdDuplicates

SpecSimilarity == InitSimilarity /\ [][NextSimilarity]_vars

\* the paths of the stored documents
StoredPaths == {sm_store[i].file_path : i \in 1..Len(sm_store)}

\* the document a cmd_related call is about: the stored document with
\* exactly the path asked for when there is one, else the one reported as
\* the target
TargetDocument ==
    IF sm_arg.filepath \in StoredPaths THEN sm_arg.filepath
    ELSE sm_out.target

\* the score cmd_related gives document b when asked for document a (0
\* when b is not listed), with no limit on the list
ScoreOf(a, b) ==
    LET similar == CmdRelatedResult(sm_store, a, Len(sm_store)).similar
        at == {k \in 1..Len(similar) : similar[k].file_path = b}
    IN IF at = {} THEN 0 ELSE similar[CHOOSE k \in at : TRUE].similarity

\* C16: for every store and every resolvable target, the list cmd_related
\* returns never holds the target document itself, and every score in it
\* lies in [0, 1] and equals the score the target gets when the listed
\* document is asked for over the same store.
C16_RelatedExcludesTargetSymmetric ==
    (sm_pc = "related" /\ sm_out.raised = "no") =>
        \A k \in 1..Len(sm_out.similar) :
            LET listed == sm_out.similar[k]
            IN /\ listed.file_path # TargetDocument
               /\ listed.similarity >= 0 /\ listed.similarity <= 10000
               /\ ScoreOf(listed.file_path, TargetDocument) = listed.similarity

\* the target matches a stored document by exact path, path suffix or
\* file name
Resolvable ==
    \E p \in StoredPaths :
        \/ p = sm_arg.filepath
        \/ EndsWithStr(sm_arg.filepath, p)
        \/ PathName(p) = PathName(sm_arg.filepath)

\* C17: cmd_related fails with FileNotIndexedError whenever the target
\* matches no stored document by exact path, path suffix or file name, an
\* empty store included; when the store holds only the target, or the
\* target's vector is empty, it returns an empty result that is no error
\* and carries an explanatory message.
C17_UnresolvableTargetFails ==
    sm_pc = "related" =>
        /\ ~Resolvable => sm_out.raised = "FileNotIndexedError"
        /\ ( /\ Resolvable
             /\ \/ Len(sm_store) = 1
                \/ DOMAIN Vectors(sm_store)[TargetDoc(sm_store,
                                              sm_arg.filepath)] = {} )
           => /\ sm_out.raised = "no"
              /\ sm_out.similar = <<>>
              /\ sm_out.error = None
              /\ sm_out.message # None

\* the fingerprints of the stored documents, and the documents holding one
Fingerprints == {sm_store[i].content_hash : i \in 1..Len(sm_store)}

PathsWithHash(h) ==
    {sm_store[i].file_path : i \in RowsWithHash(sm_store, h)}

\* the prefix similarity of two stored documents, given by path
PrefixSimilarityOf(p1, p2) ==
    LET row(p) == sm_store[CHOOSE i \in 1..Len(sm_store) :
                              sm_store[i].file_path = p]
    IN ComputePrefixSimilarity(ContentPrefix(row(p1).content),
                               ContentPrefix(row(p2).content))

\* C18: cmd_duplicates reports exactly one exact-duplicate group for each
\* fingerprint shared by two or more documents, holding all documents with
\* that fingerprint (two files with identical bytes give one group of size
\* 2); no member of an exact-duplicate group is in any near-duplicate pair,
\* every unordered pair of the other documents is reported at most once,
\* and only pairs with prefix similarity >= 0.80 are reported.
C18_DuplicateGroups ==
    sm_pc = "duplicates" =>
        LET exact == sm_out.exact_duplicates
            near == sm_out.near_duplicates
            members == UNION {exact[k].files : k \in 1..Len(exact)}
        IN /\ \A h \in Fingerprints :
                  Cardinality({k \in 1..Len(exact) : exact[k].content_hash = h})
                      = IF Cardinality(PathsWithHash(h)) >= 2 THEN 1 ELSE 0
           /\ \A k \in 1..Len(exact) :
                  /\ exact[k].content_hash \in Fingerprints
                  /\ exact[k].files = PathsWithHash(exact[k].content_hash)
                  /\ exact[k].count = Cardinality(exact[k].files)
           /\ \A k \in 1..Len(near) :
                  /\ near[k].files[1] \notin members
                  /\ near[k].files[2] \notin members
                  /\ near[k].files[1] # near[k].files[2]
                  /\ {near[k].files[1], near[k].files[2]} \subseteq StoredPaths
                  /\ AtLeastThreshold(PrefixSimilarityOf(near[k].files[1],
                                                         near[k].files[2]))
                  /\ near[k].similarity >= 8000
           /\ \A k, m \in 1..Len(near) :
                  k # m => {near[k].files[1], near[k].files[2]}
                               # {near[m].files[1], near[m].files[2]}

\* two documents with identical bytes form one group of size 2, and a third
\* whose prefix is close enough to theirs is in no near-duplicate pair
C18_Witness ==
    /\ sm_pc = "duplicates"
    /\ Len(sm_store) = 3
    /\ Len(sm_out.exact_duplicates) = 1
    /\ sm_out.exact_duplicates[1].count = 2
    /\ \E p \in sm_out.exact_duplicates[1].files :
       \E q \in StoredPaths \ sm_out.exact_duplicates[1].files :
           AtLeastThreshold(PrefixSimilarityOf(p, q))
    /\ sm_out.near_duplicates = <<>>

(***************************************************************************)
(* The source registry on its own: any sequence of cmd_mount and           *)
(* cmd_unmount calls, with aliases and paths under more than one spelling. *)
(***************************************************************************)
MountAliases == {"docs", " docs", "notes", " "}

MountPaths == {"/mnt/docs", "/mnt/docs/", "/mnt/notes", "/mnt/none"}

NextSources ==
    \/ \E path \in MountPaths, alias \in MountAliases : CmdMount(path, alias)
    \/ \E alias \in MountAliases : CmdUnmount(alias)

SpecSources == Init /\ [][NextSources]_vars

\* no two sources share an alias, and no two share an absolute path
UniqueSources(sources) ==
    \A s1, s2 \in sources :
        s1 # s2 => /\ s1.alias # s2.alias
                   /\ s1.absolute_path # s2.absolute_path

\* C19: after any sequence of cmd_mount and cmd_unmount calls no two
\* sources share an alias and no two share an absolute path; a cmd_mount
\* that reuses an existing alias or an already mounted path returns
\* success = false and leaves the set of sources unchanged.
C19_SourcesUnique ==
    [][ /\ UniqueSources(db'.sources)
        /\ ( /\ mount_out'.call = "cmd_mount"
             /\ \E src \in db.sources :
                   \/ src.alias = Strip(mount_out'.alias)
                   \/ src.absolute_path = Resolve(mount_out'.path) )
           => /\ mount_out'.success = FALSE
              /\ db'.sources = db.sources ]_vars

\* two sources are mounted and a third cmd_mount, for a free directory
\* under an alias in use, has failed
C19_Witness ==
    /\ Cardinality(db.sources) = 2
    /\ mount_out.call = "cmd_mount"
    /\ mount_out.success = FALSE
    /\ mount_out.error = "Alias already exists"

\* C20: a successful index pass removes a previously indexed document only
\* when its file is gone from the scan; a failure to re-read a changed
\* file's content is reported in the error list, does not abort the pass,
\* and does not remove that file's previous document from the store.
C20_OnlyGoneFilesRemoved ==
    [][ (pc = "tx" /\ pc' = "returned" /\ result'.status = "ok") =>
            /\ \A p \in FilePaths(db) \ FilePaths(db') :
                   p \notin DOMAIN scan.current_files
            /\ \A e \in result'.errors :
                   (e.error = "content" /\ e.file \in scan.to_update)
                       => e.file \in FilePaths(db') ]_vars

(***************************************************************************)
(* Two index_files calls on one store.  The second process's call is taken *)
(* whole, at any moment at which the first holds no transaction.           *)
(***************************************************************************)
\* index_files run from its entry to its COMMIT against the store d
IndexPass(fsx, patterns, d) ==
    LET sc == ScanAndDiff(fsx, patterns, d)
        deleted == DeleteChanged(DeleteRemoved(d, sc.to_delete), sc.to_update)
        inserted == InsertAll(deleted, sc.to_add \cup sc.to_update, fsx,
                              sc.current_files)
    IN [inserted EXCEPT !.manifest = ManifestOf(inserted, sc.current_files)]

\* another process runs index_files on the same root and store; its BEGIN
\* IMMEDIATE needs the write lock, so this process is not in its transaction
OtherPass(caller) ==
    /\ pc # "tx"
    /\ passes < MaxPasses
    /\ passes' = passes + 1
    /\ db' = IndexPass(fs, BuildPatterns(searchignore, caller), db)
    /\ tx' = db'
    /\ UNCHANGED <<fs, searchignore, pc, scan, pending, result, edits, touched,
                   steady, mount_out, fnVars>>

NextOverlap ==
    \/ \E p \in Paths, b \in Bytes : WriteFile(p, b)
    \/ \E caller \in CallerPatterns : Scan(caller)
    \/ \E caller \in CallerPatterns : OtherPass(caller)
    \/ TxDelete
    \/ \E p \in Paths : TxInsert(p)
    \/ TxCommit
    \/ TxRollback

SpecOverlap == Init /\ [][NextOverlap]_vars

\* C21: a pass holds one transaction from its read of the persisted
\* fingerprint map to its commit, so no other pass commits in between: the
\* store a pass commits into holds the fingerprint map the pass read, and
\* the committed state is one that the passes run one after the other
\* produce.
C21_OneTransactionPerPass ==
    [][ Commits => GetIndexedFiles(db) = scan.indexed_files ]_vars

\* the lookahead of a strategy: 5 lines, 3 for code sections
LookaheadOf(file_ext) == IF file_ext \in CODE_EXTENSIONS THEN 3 ELSE 5

\* the first date on the lines start..start + bound - 1 (None when none of
\* them holds a date)
FirstDateWithin(lines, start, bound) ==
    LET last == IF Len(lines) < start + bound - 1 THEN Len(lines)
                ELSE start + bound - 1
        dated == {i \in start..last : ExtractDateFromLine(lines[i]) # None}
    IN IF dated = {} THEN None
       ELSE ExtractDateFromLine(lines[CHOOSE i \in dated :
                                          \A j \in dated : i <= j])

\* C22: for every section of every strategy, section_date is the first
\* valid date found on the lines from the section's start line through the
\* lookahead bound (5 lines, fewer for code sections), normalized to
\* YYYY-MM-DD, and it is null only when none of those lines holds a date.
C22_SectionDateWithinLookahead ==
    sx_pc = "done" =>
        \A i \in 1..Len(sx_sections) :
            sx_sections[i].section_date =
                FirstDateWithin(TrimTrailing(sx_content),
                                sx_sections[i].line_start,
                                LookaheadOf(sx_type))

(***************************************************************************)
(* The sections the indexer stores: extract_sections called with the type  *)
(* tag _get_file_type gives a file name.                                   *)
(***************************************************************************)
\* a.md, b.txt, m.py, e.log
IndexedNames ==
    {<<"a", ".", "m", "d">>,
     <<"b", ".", "t", "x", "t">>,
     <<"m", ".", "p", "y">>,
     <<"e", ".", "l", "o", "g">>}

InitTyping ==
    /\ IndexIdle /\ FunctionIdle
    /\ SearchIdle
    /\ SimilarityIdle
    /\ sx_content \in Contents
    /\ sx_type \in {FileTypeOf(name) : name \in IndexedNames}
    /\ sx_sections = <<>>
    /\ sx_pc = "ready"

SpecTyping == InitTyping /\ [][NextSections]_vars

\* the extension of a file name, as extract_sections spells extensions
ExtensionOf(name) ==
    IF Suffix(name) = <<".", "m", "d">> THEN "md"
    ELSE IF Suffix(name) = <<".", "l", "o", "g">> THEN "log"
    ELSE IF Suffix(name) = <<".", "p", "y">> THEN "py"
    ELSE "txt"

\* C23: for every file the indexing pipeline indexes, the type tag it
\* gives the file selects the matching strategy of extract_sections:
\* markdown files get the markdown strategy, log files the log strategy,
\* code files the code strategy, all others the text strategy.  The
\* sections stored for a file are those of the strategy of its extension.
C23_TagSelectsStrategy ==
    sx_pc = "done" =>
        \A name \in IndexedNames :
            FileTypeOf(name) = sx_type =>
                sx_sections = ExtractSections(sx_content, ExtensionOf(name))

(***************************************************************************)
(* Enrichment of one search result (FileSearchResult): the section that    *)
(* holds the primary match line and the windowed context around it.        *)
(***************************************************************************)
DEFAULT_CONTEXT_LOOKBACK == 50
lines_after == 5
max_section_lines == 30

Larger(a, b) == IF a >= b THEN a ELSE b
Smaller(a, b) == IF a <= b THEN a ELSE b
Highest(S) == CHOOSE n \in S : \A m \in S : m <= n

\* check_file_sections_exist: SELECT 1 FROM file_sections WHERE file_id = ?
CheckFileSectionsExist(sections) == sections # <<>>

\* get_section_for_match: ... WHERE file_id = ? AND line_start <= ?
\*                            ORDER BY line_start DESC LIMIT 1
GetSectionForMatch(sections, line_number) ==
    LET above == {i \in DOMAIN sections :
                    sections[i].line_start <= line_number}
    IN IF above = {} THEN NoSection
       ELSE sections[CHOOSE i \in above : \A j \in above :
                       sections[j].line_start <= sections[i].line_start]

\* find_section_start: the "line_number" of the returned dictionary
FindSectionStart(lines, match_line, file_type, max_lookback) ==
    IF lines = <<>> \/ match_line < 1 THEN 1
    ELSE LET start_idx == Smaller(match_line - 1, Len(lines) - 1)
             end_idx == Larger(0, start_idx - max_lookback)
             scanned == (end_idx + 1)..(start_idx + 1)
             headers == {n \in scanned : IsMarkdownHeader(lines[n])}
             \* a blank or separator line with the line after it not
             \* below the match
             breaks == {n \in scanned : /\ (lines[n] = "blank"
                                            \/ lines[n] = "sep")
                                        /\ n <= start_idx}
         IN IF file_type \in {"md", "markdown"} /\ headers # {}
               THEN Highest(headers)
            ELSE IF breaks # {} THEN Highest(breaks) + 1
            ELSE end_idx + 1

\* f"{line_num:4d}{marker}{line.rstrip()}"
ContextLine(lines, idx, match_idx) ==
    [line_num |-> idx + 1,
     marker |-> IF idx = match_idx THEN " >> " ELSE "    ",
     line |-> lines[idx + 1]]

\* extract_section_context: the lines of the returned text
ExtractSectionContext(lines, section_start_line, match_line) ==
    IF lines = <<>> THEN <<>>
    ELSE LET match_idx == match_line - 1
             start_idx == Larger(0, section_start_line - 1)
             end_idx == Smaller(Len(lines), match_idx + lines_after + 1)
             long == end_idx - start_idx > max_section_lines
             half == max_section_lines \div 2
             first == IF long THEN Larger(0, match_idx - half)
                      ELSE start_idx
             last == IF long THEN Smaller(Len(lines),
                                          first + max_section_lines)
                     ELSE end_idx
         IN [k \in 1..(last - first) |->
               ContextLine(lines, first + k - 1, match_idx)]

MaxFileLines == 53
\* a file of MaxFileLines lines of text with one line of another kind
LongFile(at, kind) ==
    [n \in 1..MaxFileLines |-> IF n = at THEN kind ELSE "text"]
EnrichFiles ==
    (SeqsUpTo({"text", "blank", "sep", "hdr"}, MaxLines) \ {<<>>})
    \cup {LongFile(at, kind) : at \in 0..2, kind \in {"hdr", "blank"}}

\* a result whose primary match line is a line of the file that holds
\* text, with the sections index_files stored for it, or none
InitEnrich ==
    /\ IndexIdle /\ FunctionIdle /\ SectionsIdle /\ SimilarityIdle
    /\ se_in = NoSearchIn /\ se_out = NoSearchOut /\ se_pc = "off"
    /\ \E lines \in EnrichFiles, file_type \in {"md", "txt"} :
         \E line_number \in {n \in 1..Len(lines) : lines[n] # "blank"} :
           \E start \in 1..line_number :
             en_in \in {[lines |-> lines, file_type |-> file_type,
                         line_number |-> line_number,
                         section_start_line |-> start,
                         db_sections |-> stored] :
                        stored \in {<<>>, ExtractSections(lines, file_type)}}
    /\ en_out = NoEnrichOut
    /\ en_pc = "ready"

\* FileSearchResult.__post_init__ and to_dict: section_info comes from the
\* stored sections when the file has some, else from find_section_start;
\* section_context is always cut from the start find_section_start found
Enrich ==
    /\ en_pc = "ready"
    /\ LET found == FindSectionStart(en_in.lines, en_in.line_number,
                                     en_in.file_type,
                                     DEFAULT_CONTEXT_LOOKBACK)
           use_db_sections == CheckFileSectionsExist(en_in.db_sections)
       IN en_out' =
            [db_section |-> IF use_db_sections
                            THEN GetSectionForMatch(en_in.db_sections,
                                                    en_in.line_number)
                            ELSE NoSection,
             section_start |-> found,
             section_context |-> ExtractSectionContext(en_in.lines, found,
                                                      en_in.line_number)]
    /\ en_pc' = "enriched"
    /\ UNCHANGED <<en_in, se_in, se_out, se_pc, indexVars, sxVars, smVars, argVars>>

\* extract_section_context(lines, section_start_line, match_line)
ExtractContext ==
    /\ en_pc = "ready"
    /\ en_out' = [NoEnrichOut EXCEPT !.section_context =
                    ExtractSectionContext(en_in.lines,
                                          en_in.section_start_line,
                                          en_in.line_number)]
    /\ en_pc' = "context"
    /\ UNCHANGED <<en_in, se_in, se_out, se_pc, indexVars, sxVars, smVars, argVars>>

NextEnrich == Enrich \/ ExtractContext

SpecEnrich == InitEnrich /\ [][NextEnrich]_vars

Covers(section, line_number) ==
    section.line_start <= line_number /\ line_number <= section.line_end

\* C24: the section attached to a result holds the primary match line:
\* with stored sections, the one returned has line_start <= line <=
\* line_end and none is returned when no stored section covers the line;
\* without them, the start find_section_start reports is at most 50 lines
\* above the match line and never below it.
C24_SectionHoldsMatchLine ==
    en_pc = "enriched" =>
        IF CheckFileSectionsExist(en_in.db_sections)
        THEN /\ en_out.db_section # NoSection =>
                  Covers(en_out.db_section, en_in.line_number)
             /\ en_out.db_section = NoSection <=>
                  \A i \in DOMAIN en_in.db_sections :
                      ~Covers(en_in.db_sections[i], en_in.line_number)
        ELSE /\ en_out.section_start <= en_in.line_number
             /\ en_in.line_number - en_out.section_start
                  <= DEFAULT_CONTEXT_LOOKBACK

\* C25: for every file, section start and match line inside the file with
\* section start <= match line, the context has at most 30 lines, all
\* consecutive and carrying their 1-indexed line numbers, holds the match
\* line marked exactly once, and holds no line more than 5 lines after the
\* match line.
C25_ContextWindow ==
    en_pc = "context" =>
        LET context == en_out.section_context
        IN /\ Len(context) <= max_section_lines
           /\ \A k \in DOMAIN context :
                /\ context[k].line_num \in 1..Len(en_in.lines)
                /\ context[k].line = en_in.lines[context[k].line_num]
                /\ k > 1 => context[k].line_num = context[k - 1].line_num + 1
                /\ context[k].line_num <= en_in.line_number + lines_after
           /\ Cardinality({k \in DOMAIN context :
                             context[k].marker = " >> "}) = 1
           /\ \E k \in DOMAIN context :
                /\ context[k].marker = " >> "
                /\ context[k].line_num = en_in.line_number
(***************************************************************************)
(* _should_exclude on its own: one file under the root against one         *)
(* trailing-slash pattern.                                                 *)
(***************************************************************************)
MaxDepth == 3
DirectoryNames == { <<".", "g", "i", "t">>, <<"g", "i", "t">>, <<"s">> }
EntryNames == DirectoryNames \cup { <<"a", ".", "m", "d">> }

\* rel_path.parts of the files under the root
RelativeFiles == SeqsUpTo(EntryNames, MaxDepth) \ {<<>>}

InitExclude ==
    /\ IndexIdle /\ SectionsIdle /\ SearchIdle /\ SimilarityIdle
    /\ fn_in \in {[name |-> "_should_exclude", rel_parts |-> parts,
                   exclude_patterns |-> << D \o <<"/">> >>] :
                    parts \in RelativeFiles, D \in DirectoryNames}
    /\ fn_out = NoArgs
    /\ fn_pc = "ready"

\* _should_exclude(file_path, root_path, exclude_patterns)
ShouldExcludeCall ==
    /\ fn_pc = "ready"
    /\ fn_in.name = "_should_exclude"
    /\ fn_out' = [name |-> "_should_exclude",
                  excluded |-> \E i \in DOMAIN fn_in.exclude_patterns :
                      ExcludedBy(fn_in.rel_parts, fn_in.exclude_patterns[i])]
    /\ fn_pc' = "_should_exclude"
    /\ UNCHANGED <<fn_in, indexVars, sxVars, seVars, smVars>>

NextExclude == ShouldExcludeCall

SpecExclude == InitExclude /\ [][NextExclude]_vars

\* the directories a file lies in, at any depth
Ancestors(parts) == {parts[i] : i \in 1..(Len(parts) - 1)}

\* C26: for every directory name D (names that begin with a dot included)
\* and every file under the root, the pattern "D/" excludes the file
\* exactly when one of its ancestor directories is named D, and never
\* because the file's own name is D.
C26_DirectoryPatternMatchesAncestors ==
    fn_pc = "_should_exclude" =>
        LET pattern == fn_in.exclude_patterns[1]
            D == SubSeq(pattern, 1, Len(pattern) - 1)
        IN fn_out.excluded <=> D \in Ancestors(fn_in.rel_parts)
(***************************************************************************)
(* search_fts on its own: the rows the full-text engine matches, each with *)
(* its bm25 value in thousandths (negative, lower is a better match) and   *)
(* its age in days, then search_combined over the ranked channel alone.    *)
(***************************************************************************)
RECENCY_DECAY_PERCENT == 1
Bm25Values == {0 - 3000, 0 - 1000, 0 - 250}
AgeDays == {0, 100}

Abs(n) == IF n < 0 THEN 0 - n ELSE n

\* bm25(...) * (1.0 + age_days * RECENCY_DECAY_FACTOR)
FinalScore(bm25, age_days) ==
    (bm25 * (100 + age_days * RECENCY_DECAY_PERCENT)) \div 100

\* 1.0 as a channel score
ChannelOne == 100000

\* 1.0 / (1.0 + abs(raw_score))
NormalizedScore(raw_score) ==
    (ChannelOne * 1000) \div (1000 + Abs(raw_score))

\* ORDER BY final_score LIMIT ?: the matched rows, lowest final_score first
\* (rows of equal score in rowid order), with their normalized scores
SearchFts(rows, age_days, limit) ==
    LET docs == CHOOSE q \in SeqsUpTo(SearchDocs, Cardinality(SearchDocs)) :
                   /\ Len(q) = Cardinality(SearchDocs)
                   /\ \A d \in SearchDocs : \E i \in 1..Len(q) : q[i] = d
        matched == {i \in 1..Len(docs) : docs[i] \in DOMAIN rows}
        final(i) == FinalScore(rows[docs[i]], age_days)
        rank(i) == Cardinality({j \in matched :
                        \/ final(j) < final(i)
                        \/ final(j) = final(i) /\ j < i}) + 1
        n == Smaller(Cardinality(matched), limit)
    IN [k \in 1..n |->
          LET i == CHOOSE i \in matched : rank(i) = k
          IN [doc |-> docs[i], score |-> NormalizedScore(final(i))]]

InitFts ==
    /\ IndexIdle /\ SectionsIdle /\ SearchIdle /\ SimilarityIdle
    /\ fn_in \in {[name |-> "search_fts", rows |-> rows, age_days |-> age,
                   limit |-> limit] :
                    rows \in UNION {[D -> Bm25Values] :
                                       D \in SUBSET SearchDocs},
                    age \in AgeDays,
                    limit \in {Cardinality(SearchDocs)}}
    /\ fn_out = NoArgs
    /\ fn_pc = "ready"

\* fts_results = search_fts(db_path, query, limit=limit * 2)
SearchFtsCall ==
    /\ fn_pc = "ready"
    /\ fn_in.name = "search_fts"
    /\ LET results == SearchFts(fn_in.rows, fn_in.age_days, fn_in.limit)
       IN /\ fn_out' = [name |-> "search_fts", results |-> results]
          /\ se_in' = [NoSearchIn EXCEPT !.limit = fn_in.limit,
                                         !.fts.hits = results]
    /\ fn_pc' = "search_fts"
    /\ se_pc' = "ready"
    /\ UNCHANGED <<fn_in, se_out, en_in, en_out, en_pc, indexVars, sxVars,
                   smVars>>

NextFts == SearchFtsCall \/ Search

SpecFts == InitFts /\ [][NextFts]_vars

\* where a document stands in a list of results, 0 when it is not in it
PlaceOf(list, doc, field) ==
    IF \E k \in DOMAIN list : list[k][field] = doc
    THEN CHOOSE k \in DOMAIN list : list[k][field] = doc
    ELSE 0

\* C27: score normalization in the ranked channel keeps the engine's
\* order: for two documents of the same age, when the engine ranks A as a
\* better match than B (a lower bm25 value), A's normalized score is not
\* lower than B's and A is not sorted below B in the fused list built from
\* the ranked channel alone.
C27_NormalizationKeepsOrder ==
    fn_pc = "search_fts" =>
        \A A, B \in DOMAIN fn_in.rows :
            fn_in.rows[A] < fn_in.rows[B] =>
                LET a == PlaceOf(fn_out.results, A, "doc")
                    b == PlaceOf(fn_out.results, B, "doc")
                    fa == PlaceOf(se_out.results, A, "filepath")
                    fb == PlaceOf(se_out.results, B, "filepath")
                IN /\ (a > 0 /\ b > 0) =>
                        fn_out.results[a].score >= fn_out.results[b].score
                   /\ (se_pc = "done" /\ fa > 0 /\ fb > 0) => fa < fb
\* C28: target resolution in cmd_related prefers an exact path match:
\* whenever the path given equals the path of a stored document, that
\* document is the resolved target, whatever other stored paths are
\* suffixes of the given path or share its file name and whatever the
\* order of the rows.
C28_ExactPathIsTarget ==
    (sm_pc = "related" /\ sm_arg.filepath \in StoredPaths) =>
        /\ sm_out.raised = "no"
        /\ sm_out.target = sm_arg.filepath
\* the documents hit by at least one channel of a search_combined call
DocumentsHit ==
    (IF se_in.fts.outcome = "ok"
     THEN {se_in.fts.hits[k].doc : k \in 1..Len(se_in.fts.hits)} ELSE {})
    \cup
    (IF se_in.rg.outcome = "ok"
     THEN {se_in.rg.hits[k].doc : k \in 1..Len(se_in.rg.hits)} ELSE {})

\* C29: fusion neither loses nor conflates documents: two different
\* documents returned by the channels are never merged into one result and
\* none is dropped before the truncation to the limit, so combined_count
\* is the number of distinct documents hit by at least one channel.
C29_FusionKeepsDocuments ==
    (/\ se_pc = "done"
     /\ se_out.raised = "no"
     /\ (se_in.fts.outcome = "ok" \/ se_in.rg.outcome = "ok")) =>
        /\ se_out.stats.combined_count = Cardinality(DocumentsHit)
        /\ Cardinality(DocumentsHit) <= se_in.limit =>
             \A d \in DocumentsHit :
                 \E k \in 1..Len(se_out.results) :
                     se_out.results[k].filepath \in {d, se_in.root \o d}
(***************************************************************************)
(* Several roots, one store: the mounted directories each hold files that  *)
(* do not change, and index_files is run on the roots get_all_source_paths *)
(* returns.                                                                *)
(***************************************************************************)
RootFiles == [Paths -> {NoFile, File(B1), File(B2)}]

\* get_all_source_paths: the absolute_path of every source, or the local
\* directory when none is mounted
GetAllSourcePaths(d) ==
    IF d.sources = {} THEN {"."}
    ELSE {src.absolute_path : src \in d.sources}

InitRoots ==
    /\ IndexIdle /\ SectionsIdle /\ SearchIdle /\ SimilarityIdle
    /\ fn_in \in {[name |-> "index_files", roots |-> roots] :
                    roots \in [ExistingDirs -> RootFiles]}
    /\ fn_out = [name |-> "index_files", walked |-> {}, deleted |-> 0]
    /\ fn_pc = "ready"

\* index_files(root_path, db_path) on one of the roots
IndexRoot(root_path) ==
    /\ fn_in.name = "index_files"
    /\ ~Running
    /\ root_path \in GetAllSourcePaths(db) \cap DOMAIN fn_in.roots
    /\ passes < MaxPasses
    /\ passes' = passes + 1
    /\ LET files == fn_in.roots[root_path]
           patterns == BuildPatterns(<<>>, <<>>)
       IN /\ db' = IndexPass(files, patterns, db)
          /\ fn_out' = [name |-> "index_files",
                        walked |-> fn_out.walked \cup {root_path},
                        deleted |-> Cardinality(
                            ScanAndDiff(files, patterns, db).to_delete)]
    /\ tx' = db'
    /\ fn_pc' = "index_files"
    /\ UNCHANGED <<fn_in, fs, searchignore, pc, scan, pending, result, edits,
                   touched, steady, mount_out, sxVars, seVars, smVars>>

NextRoots ==
    \/ CmdMount("/mnt/docs", "docs")
    \/ CmdMount("/mnt/notes", "notes")
    \/ \E root_path \in ExistingDirs : IndexRoot(root_path)

SpecRoots == InitRoots /\ [][NextRoots]_vars

\* the files of a root that a pass over it indexes
EligibleFiles(root_path) ==
    ScanCandidates(fn_in.roots[root_path], BuildPatterns(<<>>, <<>>))

\* C30: indexing one root leaves the documents of every other root alone:
\* once index_files has been run for each root get_all_source_paths
\* returns, the store holds the documents of all those roots, and a pass
\* counts a document as deleted only if its file disappeared from the root
\* it walked (no file disappears here, so no pass counts a deletion).
C30_RootsKeepTheirDocuments ==
    fn_pc = "index_files" =>
        /\ fn_out.deleted = 0
        /\ GetAllSourcePaths(db) \subseteq fn_out.walked =>
             \A root_path \in fn_out.walked :
                 EligibleFiles(root_path) \subseteq FilePaths(db)
====
